---------------------------- MODULE Spec2Model ----------------------------
(***************************************************************************)
(* A model of the kaczmarz package: the iteration engine kaczmarz.Base     *)
(* (src/src/kaczmarz/_abc.py), the system normalizer (_normalize.py) and   *)
(* the row-selection variants (_variants.py).                              *)
(*                                                                         *)
(* Numbers are exact rationals [n, d] (d > 0, lowest terms); numpy's       *)
(* floating point rounding is not modelled.  Vectors and matrices are      *)
(* functions on 0-based index ranges, as in the source.                    *)
(***************************************************************************)
EXTENDS Integers, Sequences, FiniteSets, TLC

(***************************************************************************)
(* Bounds of the model.                                                    *)
(***************************************************************************)
\* Largest explicit maxiter argument that is enumerated (0..MaxIter).
MaxIter == 3
\* Cap on the iteration counter k, reached only by an engine whose maxiter
\* is infinite (every finite maxiter of the model is below it).
MaxK == 6
\* The number of selector calls an engine may see when the caller calls
\* _select_row_index itself.
MaxSel == 3
\* The number of draws Nonrepetitive's loop may reject in one call.
MaxResample == 1
\* The number of strategy lookups by name a caller makes.
MaxLookups == 3
\* The number of rows of the matrices normalize_system is applied to.
MaxRows == 2

(***************************************************************************)
(* Exact rational arithmetic.                                              *)
(***************************************************************************)
Abs(i) == IF i < 0 THEN -i ELSE i

RECURSIVE Gcd(_, _)
Gcd(a, b) == IF b = 0 THEN a ELSE Gcd(b, a % b)

\* n/d in lowest terms with a positive denominator (d # 0).
Rat(n, d) ==
    LET g == Gcd(Abs(n), Abs(d))
        s == IF d < 0 THEN -1 ELSE 1
    IN  [n |-> s * (n \div g), d |-> s * (d \div g)]

Int2Rat(i) == [n |-> i, d |-> 1]
RZero == Int2Rat(0)
RAdd(p, q) == Rat(p.n * q.d + q.n * p.d, p.d * q.d)
RSub(p, q) == Rat(p.n * q.d - q.n * p.d, p.d * q.d)
RMul(p, q) == Rat(p.n * q.n, p.d * q.d)
RDiv(p, q) == Rat(p.n * q.d, p.d * q.n)
RLt(p, q) == p.n * q.d < q.n * p.d
RLe(p, q) == p.n * q.d <= q.n * p.d
RAbs(p) == [n |-> Abs(p.n), d |-> p.d]

\* The floats that are no numbers: nan, inf and -inf.
NaN == [n |-> 0, d |-> 0]
PosInf == [n |-> 1, d |-> 0]
NegInf == [n |-> -1, d |-> 0]

\* n / d of numpy floats: a division by zero warns and gives inf, -inf
\* or nan; it does not raise.
np_true_divide(n, d) ==
    IF d # 0 THEN Rat(n, d)
    ELSE IF n > 0 THEN PosInf ELSE IF n < 0 THEN NegInf ELSE NaN

\* Sum of f[i] over i in lo..hi (rationals).
RECURSIVE RSum(_, _, _)
RSum(f, lo, hi) == IF lo > hi THEN RZero ELSE RAdd(f[lo], RSum(f, lo + 1, hi))

\* Sum of f[i] over i in lo..hi (integers).
RECURSIVE ISum(_, _, _)
ISum(f, lo, hi) == IF lo > hi THEN 0 ELSE f[lo] + ISum(f, lo + 1, hi)

\* Integer power, e >= 0.
RECURSIVE IPow(_, _)
IPow(a, e) == IF e = 0 THEN 1 ELSE a * IPow(a, e - 1)

\* A Python list literal <<..>> as a 0-based array.
Arr(seq) == [i \in 0 .. Len(seq) - 1 |-> seq[i + 1]]
Size(v) == Cardinality(DOMAIN v)

\* F(v) for a value v that is computed once and then used several times,
\* as a local variable of the code is.
Once(v, F(_)) == CHOOSE y \in {F(w) : w \in {v}} : TRUE

\* Python's None, and a present value.
None == [tag |-> "None"]
Some(v) == [tag |-> "Some", val |-> v]

\* a @ x for two rational vectors of the same length.
Dot(a, x) == RSum([j \in DOMAIN a |-> RMul(a[j], x[j])], 0, Size(a) - 1)
\* A @ x for a matrix (array of rows) and a vector.
MatVec(A, x) == [i \in DOMAIN A |-> Dot(A[i], x)]
VecSub(u, v) == [i \in DOMAIN u |-> RSub(u[i], v[i])]
VecAdd(u, v) == [i \in DOMAIN u |-> RAdd(u[i], v[i])]
Scale(c, v) == [i \in DOMAIN v |-> RMul(c, v[i])]
\* The square of np.linalg.norm(v).
NormSq(v) == RSum([i \in DOMAIN v |-> RMul(v[i], v[i])], 0, Size(v) - 1)


(***************************************************************************)
(* System normalizer (_normalize.py).                                      *)
(***************************************************************************)
\* The exact square root of a perfect square (the systems of the model
\* have rows of integer norm, so that np.linalg.norm is exact).
ISqrt(s) == CHOOSE r \in 0 .. s : r * r = s

\* np.linalg.norm(A, axis=1) of a dense integer matrix.
compute_row_norms(A) ==
    [i \in DOMAIN A |->
        ISqrt(ISum([j \in DOMAIN A[i] |-> A[i][j] * A[i][j]], 0, Size(A[i]) - 1))]

\* sp.diags(1 / row_norms) @ A; for a row of norm 0 the factor is inf and
\* inf * 0 is nan.
normalize_matrix(A, row_norms) ==
    [i \in DOMAIN A |-> [j \in DOMAIN A[i] |-> np_true_divide(A[i][j], row_norms[i])]]

normalize_system_b_unscaled(A, b) ==
    LET row_norms == compute_row_norms(A)
    IN  [A |-> normalize_matrix(A, row_norms),
         b |-> [i \in DOMAIN b |-> Int2Rat(b[i])],
         row_norms |-> row_norms]
normalize_system(A, b) ==
    LET row_norms == compute_row_norms(A)
    IN  [A |-> normalize_matrix(A, row_norms),
         b |-> [i \in DOMAIN b |-> np_true_divide(b[i], row_norms[i])],
         row_norms |-> row_norms]

(***************************************************************************)
(* Construction (Base.__init__ and the subclasses' __init__).              *)
(***************************************************************************)
\* A field holding no array yet (self._xk = None).
NoArray == << >>
\* The result of a constructor call that raised: no object exists.
NoObject == [cls |-> "NoObject"]
\* float("inf"), as 2 * np.log(0) / np.log(..) evaluates to.
Inf == [tag |-> "inf"]

Min(a, b) == IF a <= b THEN a ELSE b

\* The least j >= from with ((10d-1)/(10d))^j <= tol^2, for 0 < tol < 1.
RECURSIVE LeastPow(_, _, _)
LeastPow(tol, d, from) ==
    IF IPow(10 * d - 1, from) * tol.d * tol.d <= tol.n * tol.n * IPow(10 * d, from)
    THEN from ELSE LeastPow(tol, d, from + 1)

\* The largest j >= from with ((10d)/(10d-1))^j <= tol^2, for tol >= 1.
RECURSIVE GreatestPow(_, _, _)
GreatestPow(tol, d, from) ==
    IF IPow(10 * d, from + 1) * tol.d * tol.d <= tol.n * tol.n * IPow(10 * d - 1, from + 1)
    THEN GreatestPow(tol, d, from + 1) ELSE from

\* maxiter = 2 * np.log(tol) / np.log(1 - 1 / (10 * d)) for tol >= 0.  The
\* value is only ever compared with the integer k (k >= maxiter), so it is
\* kept as its ceiling: for an integer j, j >= maxiter iff q^j <= tol^2 with
\* q = 1 - 1/(10d).  np.log(0) is -inf, which makes maxiter +inf.
derived_maxiter_floor(tol, d) ==
    IF tol.n = 0 THEN Inf
    ELSE IF RLt(tol, Int2Rat(1)) THEN Some(LeastPow(tol, d, 1) - 1)
    ELSE Some(-GreatestPow(tol, d, 0))
derived_maxiter(tol, d) ==
    IF tol.n = 0 THEN Inf
    ELSE IF RLt(tol, Int2Rat(1)) THEN Some(LeastPow(tol, d, 1))
    ELSE Some(-GreatestPow(tol, d, 0))

\* The "if maxiter is None:" block of Base.__init__, for a system whose
\* smaller dimension is d: the maxiter to store, or ValueError.
resolve_maxiter_default_inf(a, d) ==
    IF a.maxiter = None
    THEN IF a.tol # None
         THEN [exc |-> "None", maxiter |-> derived_maxiter(a.tol.val, d)]
         ELSE [exc |-> "None", maxiter |-> Inf]
    ELSE [exc |-> "None", maxiter |-> a.maxiter]
resolve_maxiter(a, d) ==
    IF a.maxiter = None
    THEN IF a.tol # None
         THEN [exc |-> "None", maxiter |-> derived_maxiter(a.tol.val, d)]
         ELSE [exc |-> "ValueError", maxiter |-> None]
    ELSE [exc |-> "None", maxiter |-> a.maxiter]

\* Base.__init__(A, b, x0, tol, maxiter, callback): the new object's fields,
\* or ValueError.  a is the record of the call's arguments.
Base__init__(a) ==
    LET ns == normalize_system(a.A, a.b)
        n_rows == Size(ns.b)
        n_cols == Size(ns.A[0])
        iterate_shape == IF a.x0 = None
                         THEN [a.b_shape EXCEPT ![1] = n_cols]
                         ELSE a.x0.val.shape
        x0 == IF a.x0 = None
              THEN [j \in 0 .. n_cols - 1 |-> RZero]
              ELSE [j \in DOMAIN a.x0.val.data |-> Int2Rat(a.x0.val.data[j])]
        m == resolve_maxiter(a, Min(n_rows, n_cols))
    IN  IF m.exc # "None"
        THEN [exc |-> m.exc, self |-> NoObject]
        ELSE [exc |-> "None",
              self |-> [cls |-> a.cls,
                        _A |-> ns.A, _b |-> ns.b, _row_norms |-> ns.row_norms,
                        _n_rows |-> n_rows,
                        _iterate_shape |-> iterate_shape,
                        _x0 |-> x0,
                        _tol |-> a.tol,
                        _maxiter |-> m.maxiter,
                        _k |-> -1, _ik |-> -1, _xk |-> NoArray]]

\* Cyclic.__init__(*base_args, order=None, **base_kwargs)
Cyclic__init__(a) ==
    LET r == Base__init__(a)
    IN  IF r.exc # "None" THEN r
        ELSE [r EXCEPT !.self = @ @@
                [_row_index |-> -1,
                 _order |-> IF a.order = None
                            THEN [i \in 0 .. r.self._n_rows - 1 |-> i]
                            ELSE a.order.val]]

\* Random.__init__(*base_args, p=None, **base_kwargs); p = None is uniform.
Random__init__(a) ==
    LET r == Base__init__(a)
    IN  IF r.exc # "None" THEN r
        ELSE [r EXCEPT !.self = @ @@ [_p |-> IF "p" \in DOMAIN a THEN a.p ELSE None]]

\* Quantile.__init__(*args, quantile=1.0, **kwargs)
Quantile__init__(a) ==
    LET r == Random__init__(a)
    IN  IF r.exc # "None" THEN r
        ELSE [r EXCEPT !.self = @ @@ [_quantile |-> a.quantile]]

\* SampledQuantile.__init__(*args, n_samples=None, **kwargs)
SampledQuantile__init__(a) ==
    Once(Quantile__init__(a), LAMBDA r :
        IF r.exc # "None" THEN r
        ELSE [r EXCEPT !.self = @ @@
                [_n_samples |-> IF a.n_samples = None THEN r.self._n_rows
                                ELSE a.n_samples.val]])

\* deque(items, maxlen=maxlen)
deque(items, maxlen) == [items |-> items, maxlen |-> maxlen]

\* WindowedQuantile.__init__(*args, window_size=None, **kwargs);
\* deque raises ValueError for a negative maxlen.
WindowedQuantile__init__(a) ==
    Once(Quantile__init__(a), LAMBDA r :
        IF r.exc # "None" THEN r
        ELSE IF a.window_size # None /\ a.window_size.val < 0
        THEN [exc |-> "ValueError", self |-> NoObject]
        ELSE [r EXCEPT !.self = @ @@
                [_window |-> deque(<< >>, IF a.window_size = None THEN r.self._n_rows
                                          ELSE a.window_size.val)]])

\* self._A @ self._A.T
Gramian(A) == [i \in DOMAIN A |-> [j \in DOMAIN A |-> Dot(A[i], A[j])]]

\* MaxDistanceLookahead.__init__(*base_args, **base_kwargs)
MaxDistanceLookahead__init__(a) ==
    Once(Base__init__(a), LAMBDA r :
        IF r.exc # "None" THEN r
        ELSE Once(Gramian(r.self._A), LAMBDA gramian :
                [r EXCEPT !.self = @ @@
                    [_next_i |-> None,
                     _gramian |-> gramian,
                     _gramian2 |-> [i \in DOMAIN gramian |->
                                      [j \in DOMAIN gramian |->
                                          RMul(gramian[i][j], gramian[i][j])]]]]))

\* RandomOrthoGraph.__init__(*args, p=None, **kwargs); p = None is ones.
\* _i_to_neighbors[i] are the rows NOT orthogonal to row i.
RandomOrthoGraph__init__(a) ==
    Once(Base__init__(a), LAMBDA r :
        IF r.exc # "None" THEN r
        ELSE Once(Gramian(r.self._A), LAMBDA gramian :
             Once(VecSub(MatVec(r.self._A, r.self._x0), r.self._b), LAMBDA residual0 :
                [r EXCEPT !.self = @ @@
                    [_gramian |-> gramian,
                     _i_to_neighbors |->
                         [i \in DOMAIN gramian |->
                             {j \in DOMAIN gramian : gramian[i][j] # RZero}],
                     _p |-> [i \in DOMAIN gramian |-> 1],
                     _selectable |->
                         [i \in DOMAIN residual0 |-> residual0[i] # RZero]]])))

\* ParallelOrthoUpdate.__init__(*args, q=None, **kwargs)
ParallelOrthoUpdate__init__(a) ==
    Once(RandomOrthoGraph__init__(a), LAMBDA r :
        IF r.exc # "None" THEN r
        ELSE [r EXCEPT !.self = @ @@
                [_q |-> IF a.q = None THEN r.self._n_rows ELSE a.q.val]])

\* RelaxedGreedy.__init__(*args, theta=0.5, **kwargs)
RelaxedGreedy__init__(a) ==
    Once(Base__init__(a), LAMBDA r :
        IF r.exc # "None" THEN r
        ELSE IF RLt(a.theta, RZero) \/ RLt(Int2Rat(1), a.theta)
        THEN [exc |-> "Exception", self |-> NoObject]
        ELSE Once([i \in DOMAIN r.self._row_norms |->
                      Int2Rat(r.self._row_norms[i] * r.self._row_norms[i])],
                  LAMBDA row_norms_sq :
                [r EXCEPT !.self = @ @@
                    [_theta |-> a.theta,
                     _row_norms_sq |-> row_norms_sq,
                     _fro_sq |-> RSum(row_norms_sq, 0, Size(row_norms_sq) - 1)]]))

\* cls(*base_args, **base_kwargs), which Base.iterates and Base.solve call
\* too.  "Dummy" is the tests' _DummyStrategy, which adds no constructor.
New(a) ==
    CASE a.cls = "Cyclic" -> Cyclic__init__(a)
      [] a.cls = "Quantile" -> Quantile__init__(a)
      [] a.cls = "SampledQuantile" -> SampledQuantile__init__(a)
      [] a.cls = "WindowedQuantile" -> WindowedQuantile__init__(a)
      [] a.cls = "MaxDistanceLookahead" -> MaxDistanceLookahead__init__(a)
      [] a.cls = "RandomOrthoGraph" -> RandomOrthoGraph__init__(a)
      [] a.cls = "ParallelOrthoUpdate" -> ParallelOrthoUpdate__init__(a)
      [] a.cls = "Nonrepetitive" -> Random__init__(a)
      [] a.cls = "RelaxedGreedy" -> RelaxedGreedy__init__(a)
      [] OTHER -> Base__init__(a)

(***************************************************************************)
(* The engine's accessors, update and stopping criterion (_abc.py).        *)
(***************************************************************************)
\* Base.ik
ik(s) == s._ik

\* Base.xk: self._xk.copy().reshape(*self._iterate_shape).  mem is the
\* buffer the returned array is backed by: "fresh", the copy's own, or
\* "_xk", the engine's.
xk_no_reshape(s) == [shape |-> <<Size(s._xk)>>, data |-> s._xk, mem |-> "fresh"]
xk_no_copy(s) == [shape |-> s._iterate_shape, data |-> s._xk, mem |-> "_xk"]
xk(s) == [shape |-> s._iterate_shape, data |-> s._xk, mem |-> "fresh"]

\* Base._update_iterate(xk, ik): xk + (bi - ai @ xk) * ai
Base_update_iterate_triple(s, x_k, i_k) ==
    LET ai == s._A[i_k]
        bi == s._b[i_k]
    IN  VecAdd(x_k, Scale(RMul(RSub(bi, Dot(ai, x_k)), Int2Rat(3)), ai))
Base_update_iterate_half(s, x_k, i_k) ==
    LET ai == s._A[i_k]
        bi == s._b[i_k]
    IN  VecAdd(x_k, Scale(RDiv(RSub(bi, Dot(ai, x_k)), Int2Rat(2)), ai))
Base_update_iterate(s, x_k, i_k) ==
    LET ai == s._A[i_k]
        bi == s._b[i_k]
    IN  VecAdd(x_k, Scale(RSub(bi, Dot(ai, x_k)), ai))

\* ParallelOrthoUpdate._update_iterate(xk, tauk): the usual updates, one
\* after the other, for the rows of the list tauk.
ParallelOrthoUpdate_update_iterate_first_only(s, x_k, tauk) ==
    IF tauk = << >> THEN x_k ELSE Base_update_iterate(s, x_k, Head(tauk))
RECURSIVE ParallelOrthoUpdate_update_iterate(_, _, _)
ParallelOrthoUpdate_update_iterate(s, x_k, tauk) ==
    IF tauk = << >> THEN x_k
    ELSE ParallelOrthoUpdate_update_iterate(
             s, Base_update_iterate(s, x_k, Head(tauk)), Tail(tauk))

\* self._update_iterate(xk, ik), dispatched on the object's class.
_update_iterate(s, x_k, i_k) ==
    IF s.cls = "ParallelOrthoUpdate"
    THEN ParallelOrthoUpdate_update_iterate(s, x_k, i_k)
    ELSE Base_update_iterate(s, x_k, i_k)

\* self._k >= self._maxiter
ReachedMaxiter_gt(s) ==
    IF s._maxiter = Inf THEN FALSE ELSE s._k > s._maxiter.val
ReachedMaxiter(s) ==
    IF s._maxiter = Inf THEN FALSE ELSE s._k >= s._maxiter.val

\* np.linalg.norm(self._b - self._A @ xk) < self._tol, decided on the
\* squares (the norm is >= 0, so it is below no tol <= 0).
ResidualBelowTol(s, x_k) ==
    /\ RLt(RZero, s._tol.val)
    /\ RLt(NormSq(VecSub(s._b, MatVec(s._A, x_k))), RMul(s._tol.val, s._tol.val))

\* Base._stopping_criterion(k, xk)
_stopping_criterion_no_tol(s, k, x_k) == ReachedMaxiter(s)
_stopping_criterion(s, k, x_k) ==
    IF ReachedMaxiter(s) THEN TRUE
    ELSE IF s._tol # None /\ ResidualBelowTol(s, x_k) THEN TRUE
    ELSE FALSE

(***************************************************************************)
(* Row selection (_variants.py).  A selector call is the set of its        *)
(* possible outcomes: the value returned (ik), the object after the call   *)
(* (self), the values np.random.choice returned during the call (draws)    *)
(* and the exception the call raised (exc); a random draw is every index   *)
(* of positive probability.                                                *)
(***************************************************************************)
\* The selector returned i, leaving the object as s, after the draws d.
Outcome(i, s, d) == [ik |-> i, self |-> s, draws |-> d, exc |-> "None"]
\* The selector raised e, leaving the object as s, after the draws d.
Raises(e, s, d) == [ik |-> -1, self |-> s, draws |-> d, exc |-> e]

\* The tests' _DummyStrategy._select_row_index
Dummy_select_row_index(s, x_k) == {Outcome(0, s, << >>)}

\* Cyclic._select_row_index
Cyclic_select_row_index_stuck(s, x_k) ==
    LET row_index == (1 + s._row_index) % s._n_rows
    IN  {Outcome(s._order[row_index], s, << >>)}
Cyclic_select_row_index_no_order(s, x_k) ==
    LET row_index == (1 + s._row_index) % s._n_rows
    IN  {Outcome(row_index, [s EXCEPT !._row_index = row_index], << >>)}
Cyclic_select_row_index(s, x_k) ==
    LET row_index == (1 + s._row_index) % s._n_rows
    IN  {Outcome(s._order[row_index], [s EXCEPT !._row_index = row_index], << >>)}

\* np.argmax(v): the first index of the largest entry.
np_argmax_last(v) ==
    CHOOSE i \in DOMAIN v :
        /\ \A j \in DOMAIN v : RLe(v[j], v[i])
        /\ \A j \in DOMAIN v : j > i => RLt(v[j], v[i])
np_argmax(v) ==
    CHOOSE i \in DOMAIN v :
        /\ \A j \in DOMAIN v : RLe(v[j], v[i])
        /\ \A j \in DOMAIN v : j < i => RLt(v[j], v[i])

\* MaxDistance._select_row_index
MaxDistance_select_row_index(s, x_k) ==
    LET residual == VecSub(s._b, MatVec(s._A, x_k))
    IN  {Outcome(np_argmax([i \in DOMAIN residual |-> RAbs(residual[i])]), s, << >>)}

\* np.max of a set of numbers.
np_max(S) == CHOOSE m \in S : \A e \in S : RLe(e, m)

\* MaxDistanceLookahead._select_row_index with a row cached:
\* temp = self._next_i; self._next_i = None; return temp
TakeCached_keep(s) == {Outcome(s._next_i.val, s, << >>)}
TakeCached(s) == {Outcome(s._next_i.val, [s EXCEPT !._next_i = None], << >>)}

\* cost_mat of MaxDistanceLookahead._select_row_index for the residual r:
\* residual_2[i] + residual_2[j] - 2 * residual[i] * gramian[i][j] * residual[j]
\*     + gramian2[i][j] * residual_2[i]
cost_mat(s, r) ==
    [i \in DOMAIN r |-> [j \in DOMAIN r |->
        RAdd(RSub(RAdd(RMul(r[i], r[i]), RMul(r[j], r[j])),
                  RMul(Int2Rat(2), RMul(r[i], RMul(s._gramian[i][j], r[j])))),
             RMul(s._gramian2[i][j], RMul(r[i], r[i])))]]

\* best_i and self._next_i of MaxDistanceLookahead._select_row_index, from
\* the residual r, cost_mat and best_cost.  best_i is the first, in the
\* order of np.argsort(residual_2)[::-1], of the rows of cost_mat holding
\* best_cost; the order argsort gives equal entries is not specified, so
\* each row of largest residual_2 among them is a possible best_i.
BestPairs(s, r, cost, best_cost) ==
    LET holding == {i \in DOMAIN cost : \E j \in DOMAIN cost : cost[i][j] = best_cost}
        firsts == {i \in holding :
                      \A h \in holding : RLe(RMul(r[h], r[h]), RMul(r[i], r[i]))}
    IN  { Outcome(best_i,
                  [s EXCEPT !._next_i =
                      Some(CHOOSE j \in DOMAIN cost :
                              /\ cost[best_i][j] = best_cost
                              /\ \A l \in DOMAIN cost :
                                    l < j => cost[best_i][l] # best_cost)],
                  << >>) : best_i \in firsts }

\* MaxDistanceLookahead._select_row_index (residual, cost_mat and
\* best_cost are each computed once, as the code's local variables are).
MaxDistanceLookahead_select_row_index(s, x_k) ==
    IF s._next_i # None THEN TakeCached(s)
    ELSE UNION { UNION { UNION { BestPairs(s, residual, cost, best_cost) :
                    best_cost \in {np_max({cost[i][j] : i \in DOMAIN cost,
                                                        j \in DOMAIN cost})} } :
                    cost \in {cost_mat(s, residual)} } :
                    residual \in {VecSub(s._b, MatVec(s._A, x_k))} }

\* RandomOrthoGraph._update_selectable(ik)
_update_selectable_no_neighbors(s, i_k) ==
    [s EXCEPT !._selectable = [i \in DOMAIN @ |-> IF i = i_k THEN FALSE ELSE @[i]]]
_update_selectable_reversed(s, i_k) ==
    [s EXCEPT !._selectable =
        [i \in DOMAIN @ |-> IF i \in s._i_to_neighbors[i_k] THEN TRUE ELSE @[i]]]
_update_selectable(s, i_k) ==
    [s EXCEPT !._selectable =
        [i \in DOMAIN @ |->
            IF i = i_k THEN FALSE
            ELSE IF i \in s._i_to_neighbors[i_k] THEN TRUE
            ELSE @[i]]]

\* The rows np.random.choice(self._n_rows, p=p) can return for
\* p = self._p with the entries outside selectable zeroed, renormalized.
Drawable(s, selectable) == {i \in DOMAIN selectable : selectable[i] /\ s._p[i] > 0}

\* RandomOrthoGraph._select_row_index.  With no row to draw, p.sum() is 0,
\* p /= p.sum() is nan and np.random.choice raises ValueError.
RandomOrthoGraph_select_row_index(s, x_k) ==
    IF Drawable(s, s._selectable) = {}
    THEN {Raises("ValueError", s, << >>)}
    ELSE {Outcome(i, _update_selectable(s, i), <<i>>) : i \in Drawable(s, s._selectable)}

\* RandomOrthoGraph.selectable: self._selectable.copy(), the boolean mask
\* with one entry per row.
selectable(s) == [i \in DOMAIN s._selectable |-> s._selectable[i]]

\* len(array): the length of the first axis.
len(v) == Size(v)

\* The lists tauk the while loop of ParallelOrthoUpdate._select_row_index
\* can build from tauk and curr_selectable (p has no zero entry, so a
\* selectable row can always be drawn).
RECURSIVE Tauks_keep_neighbors(_, _, _)
Tauks_keep_neighbors(s, tauk, curr_selectable) ==
    IF Len(tauk) # s._q /\ \E i \in DOMAIN curr_selectable : curr_selectable[i]
    THEN UNION { Tauks_keep_neighbors(s, Append(tauk, i),
                       [j \in DOMAIN curr_selectable |->
                           IF j = i THEN FALSE ELSE curr_selectable[j]]) :
                 i \in Drawable(s, curr_selectable) }
    ELSE {tauk}
RECURSIVE Tauks(_, _, _)
Tauks(s, tauk, curr_selectable) ==
    IF Len(tauk) # s._q /\ \E i \in DOMAIN curr_selectable : curr_selectable[i]
    THEN UNION { Tauks(s, Append(tauk, i),
                       [j \in DOMAIN curr_selectable |->
                           IF j \in s._i_to_neighbors[i] THEN FALSE
                           ELSE curr_selectable[j]]) :
                 i \in Drawable(s, curr_selectable) }
    ELSE {tauk}

\* for i in tauk: self._update_selectable(i)
RECURSIVE UpdateSelectableAll(_, _)
UpdateSelectableAll(s, tauk) ==
    IF tauk = << >> THEN s
    ELSE UpdateSelectableAll(_update_selectable(s, Head(tauk)), Tail(tauk))

\* ParallelOrthoUpdate._select_row_index
ParallelOrthoUpdate_select_row_index(s, x_k) ==
    { Outcome(tauk, UpdateSelectableAll(s, tauk), tauk) :
      tauk \in Tauks(s, << >>, s._selectable) }

\* The values np.random.choice(n, p=p) can return: every index for
\* p = None, the indexes of positive probability otherwise.
np_random_choice(n, p) ==
    IF p = None THEN 0 .. n - 1 ELSE {i \in 0 .. n - 1 : RLt(RZero, p.val[i])}

\* Random._select_row_index: np.random.choice(self._n_rows, p=self._p)
Random_select_row_index(s, x_k) ==
    {Outcome(i, s, <<i>>) : i \in np_random_choice(s._n_rows, s._p)}

\* Nonrepetitive._select_row_index: draw, and draw again while the draw
\* equals self._ik.  A call in which every possible draw equals self._ik
\* never returns: it has no outcome.
Nonrepetitive_select_row_index_no_loop(s, x_k) == Random_select_row_index(s, x_k)
Nonrepetitive_select_row_index(s, x_k) ==
    LET drawn == {o.ik : o \in Random_select_row_index(s, x_k)}
        rejected == IF s._ik \in drawn THEN 0 .. MaxResample ELSE {0}
    IN  { Outcome(i, s, [e \in 1 .. r |-> s._ik] \o <<i>>) :
          i \in drawn \ {s._ik}, r \in rejected }

\* RelaxedGreedy._select_row_index.  At a solution res_norm_sq is 0:
\* theta / res_norm_sq is inf or nan, epsilon is nan, every comparison
\* with it is False and the index set is empty.  A row of the index set
\* has a non-zero residual or all rows are in it, so prob.sum() is not 0.
RelaxedGreedy_index_bool_all(s, x_k) == [i \in DOMAIN s._b |-> TRUE]
RelaxedGreedy_index_bool_unscaled_uniform(s, x_k) ==
    LET residual == VecSub(s._b, MatVec(s._A, x_k))
        residual_sq == [i \in DOMAIN residual |-> RMul(residual[i], residual[i])]
        residual_unnormalized_sq ==
            [i \in DOMAIN residual |-> RMul(s._row_norms_sq[i], residual_sq[i])]
        res_norm_sq == RSum(residual_unnormalized_sq, 0, Size(residual) - 1)
    IN  [i \in DOMAIN residual |->
            /\ res_norm_sq # RZero
            /\ LET epsilon == RAdd(RMul(RDiv(s._theta, res_norm_sq), residual_sq[i]),
                                   RDiv(Int2Rat(1), s._fro_sq))
               IN  RLe(RMul(RMul(epsilon, res_norm_sq), s._row_norms_sq[i]),
                       residual_unnormalized_sq[i])]
RelaxedGreedy_index_bool(s, x_k) ==
    LET residual == VecSub(s._b, MatVec(s._A, x_k))
        residual_sq == [i \in DOMAIN residual |-> RMul(residual[i], residual[i])]
        residual_unnormalized_sq ==
            [i \in DOMAIN residual |-> RMul(s._row_norms_sq[i], residual_sq[i])]
        res_norm_sq == RSum(residual_unnormalized_sq, 0, Size(residual) - 1)
    IN  [i \in DOMAIN residual |->
            /\ res_norm_sq # RZero
            /\ LET epsilon == RAdd(RMul(RDiv(s._theta, res_norm_sq), residual_sq[i]),
                                   RDiv(RSub(Int2Rat(1), s._theta), s._fro_sq))
               IN  RLe(RMul(RMul(epsilon, res_norm_sq), s._row_norms_sq[i]),
                       residual_unnormalized_sq[i])]

RelaxedGreedy_select_row_index(s, x_k) ==
    LET residual == VecSub(s._b, MatVec(s._A, x_k))
        index_bool == RelaxedGreedy_index_bool(s, x_k)
        prob == [i \in DOMAIN residual |->
                    IF index_bool[i]
                    THEN RMul(s._row_norms_sq[i], RMul(residual[i], residual[i]))
                    ELSE RZero]
    IN  IF \A i \in DOMAIN index_bool : ~index_bool[i]
        THEN {Raises("Exception", s, << >>)}
        ELSE {Outcome(i, s, <<i>>) : i \in np_random_choice(s._n_rows, Some(prob))}

\* The element at position pos of np.sort(v).
SortedAt(v, pos) ==
    CHOOSE e \in {v[i] : i \in DOMAIN v} :
        /\ Cardinality({i \in DOMAIN v : RLt(v[i], e)}) <= pos
        /\ pos < Cardinality({i \in DOMAIN v : RLe(v[i], e)})

\* np.quantile(v, q), linear interpolation between the order statistics
\* around the virtual index q * (len(v) - 1).
np_quantile(v, q) ==
    LET m == Size(v)
        h == RMul(q, Int2Rat(m - 1))
        lo == h.n \div h.d
        hi == Min(lo + 1, m - 1)
        g == RSub(h, Int2Rat(lo))
    IN  RAdd(SortedAt(v, lo), RMul(g, RSub(SortedAt(v, hi), SortedAt(v, lo))))

\* np.isclose(a, b): |a - b| <= 1e-8 + 1e-5 * |b|, i.e. with |a - b| = p/q
\* and |b| = n/d: 10^8 * p * d <= q * (d + 1000 * n).
np_isclose(a, b) ==
    LET diff == RAbs(RSub(a, b))
        babs == RAbs(b)
    IN  diff.n * babs.d <= (diff.d * (babs.d + 1000 * babs.n)) \div 100000000

\* Quantile._distance
Quantile_distance(s, x_k, i_k) == RAbs(RSub(s._b[i_k], Dot(s._A[i_k], x_k)))

\* Quantile._threshold_distances
Quantile_threshold_distances(s, x_k) ==
    LET r == VecSub(s._b, MatVec(s._A, x_k)) IN [i \in DOMAIN r |-> RAbs(r[i])]

Quantile_threshold_median(s, x_k) ==
    np_quantile(Quantile_threshold_distances(s, x_k), Rat(1, 2))
\* Quantile._threshold
Quantile_threshold(s, x_k) ==
    np_quantile(Quantile_threshold_distances(s, x_k), s._quantile)

\* Quantile._select_row_index
Quantile_select_row_index_accept_all(s, x_k) == Random_select_row_index(s, x_k)
Quantile_select_row_index(s, x_k) ==
    { LET distance == Quantile_distance(o.self, x_k, o.ik)
          threshold == Quantile_threshold(o.self, x_k)
      IN  IF RLt(distance, threshold) \/ np_isclose(distance, threshold)
          THEN o
          ELSE [o EXCEPT !.ik = -1]
      : o \in Random_select_row_index(s, x_k) }

\* np.quantile(v, q) of an empty v depends on the numpy at hand: it returns
\* nan (with a warning), or raises IndexError.
np_quantile_outcomes(v, q) ==
    IF Size(v) = 0
    THEN {[exc |-> "None", val |-> NaN], [exc |-> "IndexError", val |-> NaN]}
    ELSE {[exc |-> "None", val |-> np_quantile(v, q)]}

\* distance < threshold or np.isclose(distance, threshold); both are False
\* for a nan threshold.
Quantile_accepts(distance, threshold) ==
    /\ threshold # NaN
    /\ RLt(distance, threshold) \/ np_isclose(distance, threshold)

\* np.random.choice(n, size, replace=False): size distinct values of
\* 0 .. n-1 in some order; ValueError when size > n or size < 0.
np_random_choice_no_replace(n, size) ==
    IF size > n \/ size < 0
    THEN {[exc |-> "ValueError", val |-> << >>]}
    ELSE {[exc |-> "None", val |-> idxs] :
            idxs \in {f \in [0 .. size - 1 -> 0 .. n - 1] :
                        \A e1, e2 \in 0 .. size - 1 : f[e1] = f[e2] => e1 = e2}}

\* SampledQuantile._threshold_distances
SampledQuantile_threshold_distances(s, x_k) ==
    { IF c.exc # "None" THEN c
      ELSE [c EXCEPT !.val = [e \in DOMAIN c.val |->
                                 RAbs(RSub(s._b[c.val[e]], Dot(s._A[c.val[e]], x_k)))]]
      : c \in np_random_choice_no_replace(s._n_rows, s._n_samples) }

\* Quantile._select_row_index as SampledQuantile inherits it.
SampledQuantile_select_row_index(s, x_k) ==
    UNION { Once(Quantile_distance(o.self, x_k, o.ik), LAMBDA distance :
                UNION { IF ds.exc # "None"
                        THEN {Raises(ds.exc, o.self, o.draws)}
                        ELSE { IF t.exc # "None"
                               THEN Raises(t.exc, o.self, o.draws)
                               ELSE IF Quantile_accepts(distance, t.val)
                               THEN o
                               ELSE [o EXCEPT !.ik = -1]
                               : t \in np_quantile_outcomes(ds.val, o.self._quantile) }
                        : ds \in SampledQuantile_threshold_distances(o.self, x_k) })
            : o \in Random_select_row_index(s, x_k) }

\* deque.append(v) on a deque with a maxlen: a full deque drops its oldest
\* item; a deque of maxlen 0 stays empty.
deque_append_unless_full(dq, v) ==
    IF Len(dq.items) < dq.maxlen THEN [dq EXCEPT !.items = Append(@, v)] ELSE dq
deque_append(dq, v) ==
    IF dq.maxlen = 0 THEN dq
    ELSE IF Len(dq.items) < dq.maxlen THEN [dq EXCEPT !.items = Append(@, v)]
    ELSE [dq EXCEPT !.items = Append(Tail(@), v)]

\* WindowedQuantile._distance: the object after the append, and the
\* distance returned.
WindowedQuantile_distance(s, x_k, i_k) ==
    LET distance == Quantile_distance(s, x_k, i_k)
    IN  [self |-> [s EXCEPT !._window = deque_append(@, distance)],
         distance |-> distance]

\* WindowedQuantile._threshold_distances
WindowedQuantile_threshold_distances(s, x_k) == s._window.items

\* Quantile._select_row_index as WindowedQuantile inherits it: _distance
\* runs (and appends) before _threshold reads the window.
WindowedQuantile_select_row_index(s, x_k) ==
    UNION { Once(WindowedQuantile_distance(o.self, x_k, o.ik), LAMBDA d :
                { IF t.exc # "None"
                  THEN Raises(t.exc, d.self, o.draws)
                  ELSE IF Quantile_accepts(d.distance, t.val)
                  THEN Outcome(o.ik, d.self, o.draws)
                  ELSE Outcome(-1, d.self, o.draws)
                  : t \in np_quantile_outcomes(
                             WindowedQuantile_threshold_distances(d.self, x_k),
                             d.self._quantile) })
            : o \in Random_select_row_index(s, x_k) }

\* self._select_row_index(xk), dispatched on the object's class.
_select_row_index(s, x_k) ==
    CASE s.cls = "Cyclic" -> Cyclic_select_row_index(s, x_k)
      [] s.cls = "Quantile" -> Quantile_select_row_index(s, x_k)
      [] s.cls = "SampledQuantile" -> SampledQuantile_select_row_index(s, x_k)
      [] s.cls = "WindowedQuantile" -> WindowedQuantile_select_row_index(s, x_k)
      [] s.cls = "MaxDistance" -> MaxDistance_select_row_index(s, x_k)
      [] s.cls = "MaxDistanceLookahead" -> MaxDistanceLookahead_select_row_index(s, x_k)
      [] s.cls = "RandomOrthoGraph" -> RandomOrthoGraph_select_row_index(s, x_k)
      [] s.cls = "ParallelOrthoUpdate" -> ParallelOrthoUpdate_select_row_index(s, x_k)
      [] s.cls = "Nonrepetitive" -> Nonrepetitive_select_row_index(s, x_k)
      [] s.cls = "RelaxedGreedy" -> RelaxedGreedy_select_row_index(s, x_k)
      [] OTHER -> Dummy_select_row_index(s, x_k)

(***************************************************************************)
(* The inputs of the model.                                                *)
(***************************************************************************)
\* The tests' eye23 / ones2 (consistent, orthogonal rows), and the system
\* of test_inconsistent_system_terminates (row norms 1 and 2).  x0s are
\* the explicit starting guesses tried with each.
Systems ==
    { [A |-> Arr(<<Arr(<<1, 0, 0>>), Arr(<<0, 1, 0>>)>>), b |-> Arr(<<1, 1>>),
       x0s |-> {Arr(<<0, 0, 0>>), Arr(<<1, 0, 0>>), Arr(<<1, 1, 0>>)}],
      [A |-> Arr(<<Arr(<<1>>), Arr(<<2>>)>>), b |-> Arr(<<1, 1>>),
       x0s |-> {Arr(<<0>>), Arr(<<1>>)}] }

\* tol: None, 0, 0.9 and the 1.01 of test_tolerance (nonnegative, as the
\* interface asks; each derived maxiter of the model is 0, 2, 5 or inf).
Tols == {None, Some(Rat(0, 1)), Some(Rat(9, 10)), Some(Rat(101, 100))}

\* maxiter: None or an integer 0..MaxIter.
Maxiters == {None} \cup {Some(i) : i \in 0 .. MaxIter}

\* The engine classes and their keyword arguments.
Variants ==
    {[cls |-> "Dummy", order |-> None, quantile |-> Rat(1, 1)],
     [cls |-> "Cyclic", order |-> None, quantile |-> Rat(1, 1)],
     [cls |-> "Cyclic", order |-> Some(Arr(<<1, 0>>)), quantile |-> Rat(1, 1)]}
    \cup {[cls |-> "Quantile", order |-> None, quantile |-> q] :
            q \in {Rat(0, 1), Rat(1, 2), Rat(1, 1)}}

\* The callback the tests pass records its argument (test_callback); a
\* callback may as well write into the array it is handed ("mutate").
\* How the engine is made: cls(..), cls.iterates(..) or cls.solve(..).
Entries == {"cls", "iterates", "solve"}

Calls ==
    { [cls |-> v.cls, order |-> v.order, quantile |-> v.quantile,
       A |-> sys.A, b |-> sys.b, b_shape |-> <<Size(sys.b)>>,
       x0 |-> x0, tol |-> tol, maxiter |-> maxiter, callback |-> "record",
       entry |-> entry] :
      v \in Variants, tol \in Tols, maxiter \in Maxiters, entry \in Entries,
      sys \in Systems,
      x0 \in {None} }
    \cup
    { [cls |-> v.cls, order |-> v.order, quantile |-> v.quantile,
       A |-> sx[1].A, b |-> sx[1].b, b_shape |-> <<Size(sx[1].b)>>,
       x0 |-> Some([shape |-> <<Size(sx[2])>>, data |-> sx[2]]),
       tol |-> tol, maxiter |-> maxiter, callback |-> "record", entry |-> entry] :
      v \in Variants, tol \in Tols, maxiter \in Maxiters, entry \in Entries,
      sx \in UNION {{<<sys, d>> : d \in sys.x0s} : sys \in Systems} }

(***************************************************************************)
(* The state.                                                              *)
(***************************************************************************)
VARIABLES
    args,     \* the arguments the engine was constructed with
    self,     \* the engine object (its fields), NoObject if __init__ raised
    op,       \* the most recent call on the engine
    exc,      \* the exception that call raised, "None" if it returned
    ret,      \* the array the most recent __next__ returned, NoValue if none
    calls,    \* the arguments of the callback's invocations so far
    yielded,  \* the arrays __next__ has returned so far
    did,      \* the methods of the engine that call invoked, in order
    sel,      \* what _select_row_index returned in that call, None if not called
    xarg,     \* the xk _select_row_index was passed in that call, NoArray if none
    draws,    \* the values np.random.choice returned in that call, in order
    selected, \* the values _select_row_index has returned so far, in order
    pc,       \* who drives the engine: the caller, or where solve is
    x,        \* solve's loop variable
    result,   \* what solve returned
    lookups   \* the strategy lookups by name made so far, with their outcomes

vars == <<args, self, op, exc, ret, calls, yielded, did, sel, xarg, draws,
          selected, pc, x, result, lookups>>

NoValue == [shape |-> << >>, data |-> << >>]

\* The state after the constructor call a.
InitWith(a) ==
    LET r == New(a)
    IN  /\ args = a
        /\ self = r.self
        /\ op = "__init__"
        /\ exc = r.exc
        /\ ret = NoValue
        /\ calls = << >>
        /\ yielded = << >>
        /\ did = << >>
        /\ sel = None
        /\ xarg = NoArray
        /\ draws = << >>
        /\ selected = << >>
        /\ pc = IF r.exc # "None" THEN "raised"
                ELSE IF a.entry = "solve" THEN "solve" ELSE "caller"
        /\ x = NoValue
        /\ result = NoValue
        /\ lookups = << >>

Init == \E a \in Calls : InitWith(a)

(***************************************************************************)
(* Base.__next__ and Base.__iter__.                                        *)
(***************************************************************************)
\* if self._k == -1: self._k += 1; self._xk = self._x0
InitialIterate_zeros(s) ==
    [s EXCEPT !._k = @ + 1, !._xk = [j \in DOMAIN s._x0 |-> RZero]]
InitialIterate(s) == [s EXCEPT !._k = @ + 1, !._xk = s._x0]

\* self._k += 1, before the selector is called.
IncrementK_by2(s) == [s EXCEPT !._k = @ + 2]
IncrementK(s) == [s EXCEPT !._k = @ + 1]

\* "self._ik != -1" for the value i_k the selector of s returned; the
\* list ParallelOrthoUpdate's selector returns is never equal to -1.
Projects(s, i_k) == IF s.cls = "ParallelOrthoUpdate" THEN TRUE ELSE i_k # -1

\* self._ik = <the selector's outcome o>;
\* if self._ik != -1: self._xk = self._update_iterate(self._xk, self._ik)
UpdateStep_stale_ik(o) ==
    IF Projects(o.self, o.ik)
    THEN LET s1 == [o.self EXCEPT !._ik = o.ik]
         IN  [s1 EXCEPT !._xk = _update_iterate(s1, s1._xk, s1._ik)]
    ELSE o.self
UpdateStep_no_ik(o) ==
    IF Projects(o.self, o.ik)
    THEN [o.self EXCEPT !._xk = _update_iterate(o.self, o.self._xk, o.ik)]
    ELSE o.self
UpdateStep(o) ==
    LET s1 == [o.self EXCEPT !._ik = o.ik]
    IN  IF Projects(s1, s1._ik)
        THEN [s1 EXCEPT !._xk = _update_iterate(s1, s1._xk, s1._ik)]
        ELSE s1

\* if self._stopping_criterion(self._k, self._xk): raise StopIteration
\* The object as the raise leaves it.
RaiseStopIteration_reset(s) == [s EXCEPT !._k = -1]
RaiseStopIteration(s) == s

\* An in-place write "arr[:] = 7" into an array backed by the buffer mem,
\* as the engine s sees it: a fresh copy is nobody else's; the engine's
\* buffer is _xk, and _x0 too until a projection rebinds _xk.
WriteInto(s, mem) ==
    IF mem = "_xk"
    THEN LET overwritten == [j \in DOMAIN s._xk |-> Int2Rat(7)]
         IN  IF \A i \in DOMAIN selected : ~Projects(s, selected[i])
             THEN [s EXCEPT !._xk = overwritten, !._x0 = overwritten]
             ELSE [s EXCEPT !._xk = overwritten]
    ELSE s

\* self._callback(arr): the engine after the callback has run.
_callback(s, arr) ==
    IF args.callback = "mutate" THEN WriteInto(s, arr.mem) ELSE s

\* __next__ returning self.xk after self._callback(self.xk).
Yield_no_callback(s) ==
    /\ self' = s
    /\ calls' = calls
    /\ ret' = xk(s)
    /\ yielded' = Append(yielded, xk(s))
    /\ exc' = "None"
Yield(s) ==
    LET s2 == _callback(s, xk(s))
    IN  /\ self' = s2
        /\ calls' = Append(calls, xk(s))
        /\ ret' = xk(s2)
        /\ yielded' = Append(yielded, xk(s2))
        /\ exc' = "None"

\* The call made no use of the selector.
NoSelection ==
    /\ sel' = None
    /\ xarg' = NoArray
    /\ draws' = << >>
    /\ selected' = selected

__next__ ==
    /\ self # NoObject
    /\ op' = "__next__"
    /\ \/ /\ self._k = -1
          /\ Yield(InitialIterate(self))
          /\ did' = <<"_callback">>
          /\ NoSelection
       \/ /\ self._k # -1
          /\ _stopping_criterion(self, self._k, self._xk)
          /\ self' = RaiseStopIteration(self)
          /\ exc' = "StopIteration"
          /\ ret' = NoValue
          /\ did' = <<"_stopping_criterion">>
          /\ NoSelection
          /\ UNCHANGED <<calls, yielded>>
       \/ /\ self._k # -1
          /\ ~_stopping_criterion(self, self._k, self._xk)
          /\ self._k < MaxK
          /\ \E o \in _select_row_index(IncrementK(self), self._xk) :
                /\ xarg' = self._xk
                /\ draws' = o.draws
                /\ IF o.exc = "None"
                   THEN /\ Yield(UpdateStep(o))
                        /\ sel' = Some(o.ik)
                        /\ selected' = Append(selected, o.ik)
                        /\ did' = <<"_stopping_criterion", "_select_row_index">>
                                   \o (IF Projects(o.self, o.ik)
                                       THEN <<"_update_iterate">> ELSE << >>)
                                   \o <<"_callback">>
                   ELSE \* the selector's exception leaves __next__
                        /\ self' = o.self
                        /\ exc' = o.exc
                        /\ ret' = NoValue
                        /\ sel' = None
                        /\ selected' = selected
                        /\ did' = <<"_stopping_criterion", "_select_row_index">>
                        /\ UNCHANGED <<calls, yielded>>

\* def __iter__(self): return self
__iter__ ==
    /\ self # NoObject
    /\ op' = "__iter__"
    /\ exc' = "None"
    /\ did' = << >>
    /\ NoSelection
    /\ UNCHANGED <<self, ret, calls, yielded>>

(***************************************************************************)
(* The callers: a program holding the engine, and Base.solve.              *)
(***************************************************************************)
\* next(iterates)
next ==
    /\ pc = "caller"
    /\ __next__
    /\ UNCHANGED <<args, lookups, pc, x, result>>

\* iter(iterates)
iter ==
    /\ pc = "caller"
    /\ __iter__
    /\ UNCHANGED <<args, lookups, pc, x, result>>

\* solve: "for x in iterates" first calls iter(iterates) ...
solve_iter ==
    /\ pc = "solve"
    /\ __iter__
    /\ pc' = "for"
    /\ UNCHANGED <<args, lookups, x, result>>

\* ... then binds x to each next(..) until StopIteration; "return x".
solve_for_first ==
    /\ pc = "for"
    /\ __next__
    /\ IF exc' = "StopIteration"
       THEN pc' = "returned" /\ result' = x /\ x' = x
       ELSE IF exc' = "None"
       THEN pc' = "for" /\ x' = (IF x = NoValue THEN ret' ELSE x) /\ result' = result
       ELSE pc' = "raised" /\ x' = x /\ result' = result
    /\ UNCHANGED <<args, lookups>>
solve_for ==
    /\ pc = "for"
    /\ __next__
    /\ IF exc' = "StopIteration"
       THEN pc' = "returned" /\ result' = x /\ x' = x
       ELSE IF exc' = "None"
       THEN pc' = "for" /\ x' = ret' /\ result' = result
       ELSE pc' = "raised" /\ x' = x /\ result' = result
    /\ UNCHANGED <<args, lookups>>

Next == next \/ iter \/ solve_iter \/ solve_for

Spec == Init /\ [][Next]_vars

(***************************************************************************)
(* A caller that also reads the xk accessor and writes into the arrays it  *)
(* is handed, and a callback that writes into its argument.                *)
(***************************************************************************)
\* iterates.xk, read by the caller; before the first advance _xk is None
\* and None.copy() raises AttributeError.
read_xk ==
    /\ pc = "caller"
    /\ self # NoObject
    /\ op' = "xk"
    /\ IF self._xk = NoArray
       THEN exc' = "AttributeError" /\ ret' = NoValue
       ELSE exc' = "None" /\ ret' = xk(self)
    /\ did' = << >>
    /\ NoSelection
    /\ UNCHANGED <<args, lookups, self, calls, yielded, pc, x, result>>

\* xk[:] = 7, the caller writing in place into the array the most recent
\* call returned (test_iterates_are_copies writes np.inf).
mutate ==
    /\ pc = "caller"
    /\ self # NoObject
    /\ ret # NoValue
    /\ op' = "mutate"
    /\ exc' = "None"
    /\ ret' = [ret EXCEPT !.data = [j \in DOMAIN ret.data |-> Int2Rat(7)]]
    /\ self' = WriteInto(self, ret.mem)
    /\ did' = << >>
    /\ NoSelection
    /\ UNCHANGED <<args, lookups, calls, yielded, pc, x, result>>

\* The engines of test_iterates_are_copies and test_callback, and Cyclic.
CopyCalls ==
    { [cls |-> cls, order |-> None, quantile |-> Rat(1, 1),
       A |-> sx[1].A, b |-> sx[1].b, b_shape |-> <<Size(sx[1].b)>>,
       x0 |-> x0, tol |-> tol, maxiter |-> maxiter, callback |-> cb,
       entry |-> entry] :
      cls \in {"Dummy", "Cyclic"}, tol \in {None, Some(Rat(9, 10))},
      maxiter \in Maxiters, cb \in {"record", "mutate"},
      entry \in {"cls", "iterates"},
      sx \in UNION {{<<sys, d>> : d \in sys.x0s} : sys \in Systems},
      x0 \in {None} }
    \cup
    { [cls |-> cls, order |-> None, quantile |-> Rat(1, 1),
       A |-> sx[1].A, b |-> sx[1].b, b_shape |-> <<Size(sx[1].b)>>,
       x0 |-> Some([shape |-> <<Size(sx[2])>>, data |-> sx[2]]),
       tol |-> tol, maxiter |-> maxiter, callback |-> cb, entry |-> entry] :
      cls \in {"Dummy", "Cyclic"}, tol \in {None, Some(Rat(9, 10))},
      maxiter \in Maxiters, cb \in {"record", "mutate"},
      entry \in {"cls", "iterates"},
      sx \in UNION {{<<sys, d>> : d \in sys.x0s} : sys \in Systems} }

InitCopies == \E a \in CopyCalls : InitWith(a)

NextCopies == next \/ iter \/ read_xk \/ mutate

SpecCopies == InitCopies /\ [][NextCopies]_vars

(***************************************************************************)
(* RandomOrthoGraph and ParallelOrthoUpdate engines.                       *)
(***************************************************************************)
\* eye33 / ones3 of tests/test_parallel_ortho.py, eye23 / ones2, and a
\* system whose third row is orthogonal to no other (solution [0,1]).
\* maxiters are the maxiter values tried with the system: the iterates of
\* the third system have denominators 25^j, which bounds its steps, and
\* the maxiter derived for a 3-by-3 system is beyond 32-bit powers.
OrthoSystems ==
    { [A |-> Arr(<<Arr(<<1, 0, 0>>), Arr(<<0, 1, 0>>), Arr(<<0, 0, 1>>)>>),
       b |-> Arr(<<1, 1, 1>>),
       x0s |-> {Arr(<<0, 0, 0>>), Arr(<<1, 0, 0>>), Arr(<<1, 1, 1>>)},
       tols |-> {None, Some(Rat(9, 10))},
       maxiters |-> {Some(i) : i \in 0 .. MaxIter}],
      [A |-> Arr(<<Arr(<<1, 0, 0>>), Arr(<<0, 1, 0>>)>>), b |-> Arr(<<1, 1>>),
       x0s |-> {Arr(<<0, 0, 0>>), Arr(<<1, 0, 0>>)},
       tols |-> {None, Some(Rat(9, 10))},
       maxiters |-> Maxiters],
      [A |-> Arr(<<Arr(<<1, 0>>), Arr(<<0, 1>>), Arr(<<3, 4>>)>>),
       b |-> Arr(<<0, 1, 4>>),
       x0s |-> {Arr(<<0, 0>>), Arr(<<0, 1>>)},
       tols |-> {None},
       maxiters |-> {Some(1), Some(2)}] }

\* q of ParallelOrthoUpdate: omitted, 1 (test_selectable_set) or 2.
OrthoVariants ==
    {[cls |-> "RandomOrthoGraph", q |-> None]}
    \cup {[cls |-> "ParallelOrthoUpdate", q |-> q] : q \in {None, Some(1), Some(2)}}

OrthoCalls ==
    { [cls |-> v.cls, q |-> v.q, order |-> None, quantile |-> Rat(1, 1),
       A |-> c[1].A, b |-> c[1].b, b_shape |-> <<Size(c[1].b)>>,
       x0 |-> Some([shape |-> <<Size(c[2])>>, data |-> c[2]]),
       tol |-> c[3], maxiter |-> c[4], callback |-> "record", entry |-> entry] :
      v \in OrthoVariants, entry \in Entries,
      c \in UNION { {<<sys, d, tol, m>> : d \in sys.x0s, tol \in sys.tols,
                                         m \in sys.maxiters} : sys \in OrthoSystems } }

InitOrtho == \E a \in OrthoCalls : InitWith(a)

SpecOrtho == InitOrtho /\ [][Next]_vars

\* Every engine class driven through next, iter and solve.
InitEngines == \E a \in Calls \cup OrthoCalls : InitWith(a)

SpecEngines == InitEngines /\ [][Next]_vars

(***************************************************************************)
(* Engines on eye23 / ones2 with x0 and b of either documented shape.      *)
(***************************************************************************)
\* The shapes of test_iterate_shape: x0 omitted, (n,) or (n, 1); b (m,)
\* or (m, 1).
ShapeCalls ==
    { [cls |-> cls, order |-> None, quantile |-> Rat(1, 1),
       A |-> Arr(<<Arr(<<1, 0, 0>>), Arr(<<0, 1, 0>>)>>), b |-> Arr(<<1, 1>>),
       b_shape |-> b_shape, x0 |-> x0,
       tol |-> tol, maxiter |-> maxiter, callback |-> "record", entry |-> entry] :
      cls \in {"Dummy", "Cyclic"},
      b_shape \in {<<2>>, <<2, 1>>},
      x0 \in {None} \cup {Some([shape |-> shape, data |-> Arr(<<0, 0, 0>>)]) :
                             shape \in {<<3>>, <<3, 1>>}},
      tol \in {None, Some(Rat(9, 10))}, maxiter \in Maxiters, entry \in Entries }

InitShapes == \E a \in ShapeCalls : InitWith(a)

SpecShapes == InitShapes /\ [][Next]_vars

(***************************************************************************)
(* Engines on a single-row system and on systems with oblique rows.        *)
(***************************************************************************)
\* The single-row system of test_single_row_matrix with the row [0,0,3,4]
\* (norm 5) in the place of [0,0,1,1] (norm sqrt 2) and b = [5]; rows
\* [3,4], [1,0] with b = [7,1] (solution [1,1]); and the inconsistent
\* system of test_inconsistent_system_terminates.
ProjectSystems ==
    { [A |-> Arr(<<Arr(<<0, 0, 3, 4>>)>>), b |-> Arr(<<5>>),
       x0s |-> {None, Some(Arr(<<1, 1, 1, 1>>)), Some(Arr(<<0, 0, -1, 2>>))},
       tols |-> {None, Some(Rat(9, 10))},
       maxiters |-> Maxiters],
      [A |-> Arr(<<Arr(<<3, 4>>), Arr(<<1, 0>>)>>), b |-> Arr(<<7, 1>>),
       x0s |-> {None, Some(Arr(<<2, -1>>)), Some(Arr(<<1, 1>>))},
       tols |-> {None},
       maxiters |-> {Some(1), Some(2)}],
      [A |-> Arr(<<Arr(<<1>>), Arr(<<2>>)>>), b |-> Arr(<<1, 1>>),
       x0s |-> {None, Some(Arr(<<1>>))},
       tols |-> {None, Some(Rat(9, 10))},
       maxiters |-> {Some(i) : i \in 0 .. MaxIter}] }

ProjectCalls ==
    UNION { { [cls |-> cls, p |-> None, order |-> None, quantile |-> Rat(1, 1),
               A |-> sys.A, b |-> sys.b, b_shape |-> <<Size(sys.b)>>,
               x0 |-> IF d = None THEN None
                      ELSE Some([shape |-> <<Size(d.val)>>, data |-> d.val]),
               tol |-> tol, maxiter |-> m, callback |-> "record", entry |-> entry] :
              cls \in {"Dummy", "Cyclic", "MaxDistance", "Nonrepetitive"},
              d \in sys.x0s, tol \in sys.tols, m \in sys.maxiters,
              entry \in Entries } :
            sys \in ProjectSystems }

InitProject == \E a \in ProjectCalls : InitWith(a)

SpecProject == InitProject /\ [][Next]_vars

(***************************************************************************)
(* Every strategy class on consistent systems.                             *)
(***************************************************************************)
\* eye23 / ones2 (orthogonal rows, underdetermined) and rows [3,4], [1,0]
\* with b = [7,1] (oblique rows, solution [1,1]).
ConsistentSystems ==
    { [A |-> Arr(<<Arr(<<1, 0, 0>>), Arr(<<0, 1, 0>>)>>), b |-> Arr(<<1, 1>>),
       x0s |-> {Arr(<<0, 0, 0>>), Arr(<<2, 1, -1>>)},
       tols |-> {None, Some(Rat(9, 10))},
       maxiters |-> Maxiters],
      [A |-> Arr(<<Arr(<<3, 4>>), Arr(<<1, 0>>)>>), b |-> Arr(<<7, 1>>),
       x0s |-> {Arr(<<2, -1>>), Arr(<<0, 0>>)},
       tols |-> {None},
       maxiters |-> {Some(1), Some(2)}] }

\* One engine of each strategy class of the model.
StrategyVariants ==
    { [cls |-> cls, quantile |-> Rat(1, 2), theta |-> Rat(1, 2)] :
      cls \in {"Dummy", "Cyclic", "MaxDistance", "MaxDistanceLookahead", "Quantile",
               "RandomOrthoGraph", "ParallelOrthoUpdate", "Nonrepetitive",
               "RelaxedGreedy"} }

ConsistentCalls ==
    UNION { { [cls |-> v.cls, p |-> None, q |-> None, theta |-> v.theta,
               order |-> None, quantile |-> v.quantile,
               A |-> sys.A, b |-> sys.b, b_shape |-> <<Size(sys.b)>>,
               x0 |-> Some([shape |-> <<Size(d)>>, data |-> d]),
               tol |-> tol, maxiter |-> m, callback |-> "record", entry |-> entry] :
              v \in StrategyVariants, d \in sys.x0s, tol \in sys.tols,
              m \in sys.maxiters, entry \in Entries } :
            sys \in ConsistentSystems }

InitConsistent == \E a \in ConsistentCalls : InitWith(a)

SpecConsistent == InitConsistent /\ [][Next]_vars

(***************************************************************************)
(* Nonrepetitive and RelaxedGreedy engines.                                *)
(***************************************************************************)
\* eye22 with b = [1,2] (unequal residuals at x0 = 0), eye33 / ones3, and
\* rows [1,0], [0,1], [3,4] with b = [0,1,4].  ps are the sampling
\* probabilities tried with Nonrepetitive: omitted, all rows positive,
\* two rows positive, one row positive.
SamplingSystems ==
    { [A |-> Arr(<<Arr(<<1, 0>>), Arr(<<0, 1>>)>>), b |-> Arr(<<1, 2>>),
       x0s |-> {Arr(<<0, 0>>), Arr(<<1, 0>>), Arr(<<1, 2>>)},
       ps |-> {None, Some(Arr(<<Rat(1, 4), Rat(3, 4)>>)),
               Some(Arr(<<Rat(1, 1), Rat(0, 1)>>))},
       tols |-> {None, Some(Rat(9, 10))},
       maxiters |-> Maxiters],
      [A |-> Arr(<<Arr(<<1, 0, 0>>), Arr(<<0, 1, 0>>), Arr(<<0, 0, 1>>)>>),
       b |-> Arr(<<1, 1, 1>>),
       x0s |-> {Arr(<<0, 0, 0>>)},
       ps |-> {None, Some(Arr(<<Rat(1, 2), Rat(1, 2), Rat(0, 1)>>))},
       tols |-> {None, Some(Rat(9, 10))},
       maxiters |-> {Some(i) : i \in 0 .. MaxIter}],
      [A |-> Arr(<<Arr(<<1, 0>>), Arr(<<0, 1>>), Arr(<<3, 4>>)>>),
       b |-> Arr(<<0, 1, 4>>),
       x0s |-> {Arr(<<0, 0>>)},
       ps |-> {None},
       tols |-> {None},
       maxiters |-> {Some(1), Some(2)}] }

\* theta of RelaxedGreedy: the default 0.5, the ends of [0, 1], and 1.5.
Thetas == {Rat(0, 1), Rat(1, 2), Rat(1, 1), Rat(3, 2)}

\* The classes and keyword arguments tried with the system sys.
SamplingVariants(sys) ==
    {[cls |-> "Nonrepetitive", p |-> p, theta |-> Rat(1, 2)] : p \in sys.ps}
    \cup {[cls |-> "RelaxedGreedy", p |-> None, theta |-> th] : th \in Thetas}

SamplingCalls ==
    UNION { { [cls |-> v.cls, p |-> v.p, theta |-> v.theta,
               order |-> None, quantile |-> Rat(1, 1),
               A |-> sys.A, b |-> sys.b, b_shape |-> <<Size(sys.b)>>,
               x0 |-> Some([shape |-> <<Size(d)>>, data |-> d]),
               tol |-> tol, maxiter |-> m, callback |-> "record", entry |-> entry] :
              v \in SamplingVariants(sys), d \in sys.x0s, tol \in sys.tols,
              m \in sys.maxiters, entry \in Entries } :
            sys \in SamplingSystems }

InitSampling == \E a \in SamplingCalls : InitWith(a)

SpecSampling == InitSampling /\ [][Next]_vars

(***************************************************************************)
(* Engines of SampledQuantile and WindowedQuantile.                        *)
(***************************************************************************)
\* Two rows with distances 1 and 2 from x0 = 0, started at 0, at a point
\* satisfying row 0 only, and at the solution.
QuantileSystems ==
    { [A |-> Arr(<<Arr(<<1, 0>>), Arr(<<0, 1>>)>>), b |-> Arr(<<1, 2>>),
       x0s |-> {Arr(<<0, 0>>), Arr(<<1, 0>>), Arr(<<1, 2>>)}] }

\* n_samples / window_size: the default, and 0 .. MaxWindow.
MaxWindow == 2

SampleSizes == {None} \cup {Some(n) : n \in 0 .. MaxWindow}

QuantileVariants ==
    {[cls |-> "SampledQuantile", n_samples |-> n, window_size |-> None, quantile |-> q] :
        n \in SampleSizes, q \in {Rat(0, 1), Rat(1, 2), Rat(1, 1)}}
    \cup {[cls |-> "WindowedQuantile", n_samples |-> None, window_size |-> n,
           quantile |-> q] :
        n \in SampleSizes, q \in {Rat(0, 1), Rat(1, 2), Rat(1, 1)}}

QuantileCalls ==
    UNION { { [cls |-> v.cls, n_samples |-> v.n_samples, window_size |-> v.window_size,
               order |-> None, quantile |-> v.quantile,
               A |-> sys.A, b |-> sys.b, b_shape |-> <<Size(sys.b)>>,
               x0 |-> Some([shape |-> <<Size(d)>>, data |-> d]),
               tol |-> tol, maxiter |-> Some(MaxIter), callback |-> "record",
               entry |-> entry] :
              v \in QuantileVariants, d \in sys.x0s,
              tol \in {None, Some(Rat(9, 10))}, entry \in Entries } :
            sys \in QuantileSystems }

InitQuantiles == \E a \in QuantileCalls : InitWith(a)

SpecQuantiles == InitQuantiles /\ [][Next]_vars

(***************************************************************************)
(* A caller that calls the selector itself, as tests/test_cyclic.py does,  *)
(* on Cyclic, MaxDistance and MaxDistanceLookahead engines.                *)
(***************************************************************************)
\* The systems of tests/test_cyclic.py and tests/test_max_distance.py; the
\* rows [2,2,1] and [3,4] stand for the tests' [1,1,1] and [1,-1], whose
\* norms are not rational.  xs are the vectors the selector is called
\* with (and the starting guesses), orders the orders Cyclic is given.
SelectSystems ==
    { [A |-> Arr(<<Arr(<<1, 0, 0>>), Arr(<<0, 1, 0>>)>>), b |-> Arr(<<1, 1>>),
       xs |-> {Arr(<<0, 0, 0>>), Arr(<<1, 0, 0>>), Arr(<<0, 3, 0>>)},
       orders |-> {None, Some(Arr(<<1, 0>>))}],
      [A |-> Arr(<<Arr(<<1, 0, 0>>), Arr(<<0, 1, 0>>), Arr(<<0, 0, 1>>)>>),
       b |-> Arr(<<1, 2, 3>>),
       xs |-> {Arr(<<0, 0, 0>>), Arr(<<0, 0, 3>>), Arr(<<4, 4, 0>>)},
       orders |-> {None, Some(Arr(<<2, 0, 1>>))}],
      [A |-> Arr(<<Arr(<<1, 0, 0>>), Arr(<<0, 2, 0>>), Arr(<<0, 0, 4>>)>>),
       b |-> Arr(<<1, 1, 1>>),
       xs |-> {Arr(<<0, 0, 0>>), Arr(<<1, 0, 0>>)},
       orders |-> {None}],
      [A |-> Arr(<<Arr(<<2, 2, 1>>), Arr(<<2, 2, 1>>), Arr(<<2, 2, 1>>)>>),
       b |-> Arr(<<5, 8, 5>>),
       xs |-> {Arr(<<1, 1, 1>>), Arr(<<0, 0, 0>>)},
       orders |-> {None}],
      [A |-> Arr(<<Arr(<<1, 0>>), Arr(<<0, 1>>), Arr(<<3, 4>>)>>),
       b |-> Arr(<<0, 0, 0>>),
       xs |-> {Arr(<<1, 1>>), Arr(<<2, -1>>), Arr(<<0, 0>>)},
       orders |-> {None}] }

SelectCalls ==
    { [cls |-> "Cyclic", order |-> so[2], quantile |-> Rat(1, 1),
       A |-> so[1].A, b |-> so[1].b, b_shape |-> <<Size(so[1].b)>>,
       x0 |-> None, tol |-> tol, maxiter |-> Some(MaxIter), callback |-> "record",
       entry |-> "cls"] :
      tol \in {None, Some(Rat(9, 10))},
      so \in UNION {{<<sys, o>> : o \in sys.orders} : sys \in SelectSystems} }
    \cup
    { [cls |-> cls, order |-> None, quantile |-> Rat(1, 1),
       A |-> sx[1].A, b |-> sx[1].b, b_shape |-> <<Size(sx[1].b)>>,
       x0 |-> Some([shape |-> <<Size(sx[2])>>, data |-> sx[2]]),
       tol |-> tol, maxiter |-> Some(MaxIter), callback |-> "record",
       entry |-> "cls"] :
      cls \in {"MaxDistance", "MaxDistanceLookahead"},
      tol \in {None, Some(Rat(9, 10))},
      sx \in UNION {{<<sys, d>> : d \in sys.xs} : sys \in SelectSystems} }

\* The vectors the caller passes to the selector of the engine at hand.
SelectXs ==
    UNION { {[j \in DOMAIN d |-> Int2Rat(d[j])] : d \in sys.xs} :
            sys \in {s \in SelectSystems : s.A = args.A /\ s.b = args.b} }

\* iterates._select_row_index(v), called by the caller.
select ==
    /\ pc = "caller"
    /\ self # NoObject
    /\ Len(selected) < MaxSel
    /\ op' = "_select_row_index"
    /\ \E v \in SelectXs :
          \E o \in _select_row_index(self, v) :
             /\ xarg' = v
             /\ draws' = o.draws
             /\ self' = o.self
             /\ exc' = o.exc
             /\ sel' = (IF o.exc = "None" THEN Some(o.ik) ELSE None)
             /\ selected' = (IF o.exc = "None" THEN Append(selected, o.ik)
                             ELSE selected)
    /\ did' = <<"_select_row_index">>
    /\ UNCHANGED <<args, lookups, ret, calls, yielded, pc, x, result>>

InitSelect == \E a \in SelectCalls : InitWith(a)

NextSelect == select \/ next

SpecSelect == InitSelect /\ [][NextSelect]_vars

(***************************************************************************)
(* Strategy lookup by name (selection.py, _get_selection_strategy.py).     *)
(***************************************************************************)
\* Python objects by kind: a class, a module-level string, a dict.
Class(name) == [kind |-> "class", val |-> name]
Str(text) == [kind |-> "str", val |-> text]
Dict(d) == [kind |-> "dict", val |-> d]

\* The names bound in module kaczmarz.selection when its line 40 runs: the
\* module's own names, the imported SelectionStrategy, and class Cyclic.
selection_vars ==
    ("__name__" :> Str("kaczmarz.selection"))
    @@ ("__doc__" :> Str("A module providing selection strategies for the Kaczmarz algorithm."))
    @@ ("SelectionStrategy" :> Class("SelectionStrategy"))
    @@ ("Cyclic" :> Class("Cyclic"))

\* name.startswith("_"), for the names of the model.
startswith_underscore(name) == name \in {"__name__", "__doc__", "_private"}

\* selection.strategies
strategies ==
    [n \in {a \in DOMAIN selection_vars :
               ~startswith_underscore(a) /\ a # "SelectionStrategy"} |->
        selection_vars[n]]

\* The attributes of module kaczmarz.selection once it is imported.
selection == selection_vars @@ ("strategies" :> Dict(strategies))

\* _selection_strategy_class_from_str(selection_strategy_str): what it
\* returns, or the exception it raises with the names its message lists.
_selection_strategy_class_from_str(selection_strategy_str) ==
    IF selection_strategy_str \in DOMAIN selection
    THEN [exc |-> "None", ret |-> selection[selection_strategy_str], listed |-> {}]
    ELSE [exc |-> "SelectionStrategyNotFoundError", ret |-> NoValue,
          listed |-> {item \in DOMAIN selection : ~startswith_underscore(item)}]

\* The names looked up: the registered one, the unknown name and the base
\* class's name of test_class_from_str, and other names.
Names == {"Cyclic", "NotARealStrategy", "SelectionStrategy", "cyclic",
          "Random", "MaxDistance", "_private"}

\* A caller that only looks strategies up; no engine is constructed.
InitLookup ==
    /\ args = [entry |-> "lookup"]
    /\ self = NoObject
    /\ op = "import"
    /\ exc = "None"
    /\ ret = NoValue
    /\ calls = << >>
    /\ yielded = << >>
    /\ did = << >>
    /\ sel = None
    /\ xarg = NoArray
    /\ draws = << >>
    /\ selected = << >>
    /\ pc = "caller"
    /\ x = NoValue
    /\ result = NoValue
    /\ lookups = << >>

\* selection_strategy_class_from_str(name)
class_from_str ==
    /\ pc = "caller"
    /\ Len(lookups) < MaxLookups
    /\ \E name \in Names :
          LET r == _selection_strategy_class_from_str(name)
          IN  /\ lookups' = Append(lookups, [name |-> name, exc |-> r.exc,
                                             ret |-> r.ret, listed |-> r.listed])
              /\ exc' = r.exc
    /\ op' = "_selection_strategy_class_from_str"
    /\ UNCHANGED <<args, self, ret, calls, yielded, did, sel, xarg, draws,
                   selected, pc, x, result>>

SpecLookup == InitLookup /\ [][class_from_str]_vars

(***************************************************************************)
(* normalize_system applied to a system by a caller.                       *)
(***************************************************************************)
\* Non-zero rows of integer norm (1, 5, 2, 5, 5, 13), so that
\* np.linalg.norm is exact, and right-hand side entries.
NormalizeRows ==
    {Arr(<<1, 0>>), Arr(<<3, 4>>), Arr(<<0, -2>>), Arr(<<-4, 3>>), Arr(<<0, 5>>),
     Arr(<<5, 12>>)}
NormalizeEntries == {-1, 0, 2}

InitNormalize ==
    /\ \E m \in 1 .. MaxRows :
          \E A \in [0 .. m - 1 -> NormalizeRows], b \in [0 .. m - 1 -> NormalizeEntries] :
             args = [entry |-> "normalize_system", A |-> A, b |-> b]
    /\ self = NoObject
    /\ op = "import"
    /\ exc = "None"
    /\ ret = NoValue
    /\ calls = << >>
    /\ yielded = << >>
    /\ did = << >>
    /\ sel = None
    /\ xarg = NoArray
    /\ draws = << >>
    /\ selected = << >>
    /\ pc = "caller"
    /\ x = NoValue
    /\ result = NoValue
    /\ lookups = << >>

\* A, b, row_norms = normalize_system(A, b)
normalize ==
    /\ pc = "caller"
    /\ op' = "normalize_system"
    /\ result' = normalize_system(args.A, args.b)
    /\ pc' = "returned"
    /\ UNCHANGED <<args, self, exc, ret, calls, yielded, did, sel, xarg, draws,
                   selected, x, lookups>>

SpecNormalize == InitNormalize /\ [][normalize]_vars

\* The same caller, with a system that has an all-zero row.
ZeroRow == Arr(<<0, 0>>)

InitDegenerate ==
    /\ \E m \in 1 .. MaxRows :
          \E A \in [0 .. m - 1 -> NormalizeRows \cup {ZeroRow}],
             b \in [0 .. m - 1 -> NormalizeEntries] :
             /\ \E i \in DOMAIN A : A[i] = ZeroRow
             /\ args = [entry |-> "normalize_system", A |-> A, b |-> b]
    /\ self = NoObject
    /\ op = "import"
    /\ exc = "None"
    /\ ret = NoValue
    /\ calls = << >>
    /\ yielded = << >>
    /\ did = << >>
    /\ sel = None
    /\ xarg = NoArray
    /\ draws = << >>
    /\ selected = << >>
    /\ pc = "caller"
    /\ x = NoValue
    /\ result = NoValue
    /\ lookups = << >>

SpecDegenerate == InitDegenerate /\ [][normalize]_vars

(***************************************************************************)
(* What the claims speak of, stated on the call's arguments.               *)
(***************************************************************************)
Constructed == self # NoObject
\* The step is a call of __next__ (by the caller or by solve).
Advance == op' = "__next__"
Raised == exc = "StopIteration"

\* x0 as the caller gave it, or the zero vector of length n.
GivenX0 ==
    IF args.x0 = None
    THEN [j \in DOMAIN args.A[0] |-> RZero]
    ELSE [j \in DOMAIN args.x0.val.data |-> Int2Rat(args.x0.val.data[j])]

\* The squared norm of (b - A @ v) / row_norms for the system as given.
ResidualNormSq(v) ==
    RSum([i \in DOMAIN args.A |->
            LET r == RSub(Int2Rat(args.b[i]),
                          RSum([j \in DOMAIN v |-> RMul(Int2Rat(args.A[i][j]), v[j])],
                               0, Size(v) - 1))
                n2 == ISum([j \in DOMAIN args.A[i] |-> args.A[i][j] * args.A[i][j]],
                           0, Size(args.A[i]) - 1)
            IN  RDiv(RMul(r, r), Int2Rat(n2))],
         0, Size(args.A) - 1)

\* tol is not None and the norm of the normalized residual at v is < tol.
TolMet(v) ==
    /\ args.tol # None
    /\ RLt(RZero, args.tol.val)
    /\ RLt(ResidualNormSq(v), RMul(args.tol.val, args.tol.val))

(***************************************************************************)
(* C1: from NotStarted (k = -1) an advance always succeeds: it sets k = 0  *)
(* and xk = x0 (the given guess, or zeros), invokes the callback once with *)
(* x0 and returns x0, consulting neither the stopping criterion nor the    *)
(* strategy, whatever maxiter and tol are.                                 *)
(***************************************************************************)
C1_FirstAdvance ==
    [][(Constructed /\ self._k = -1 /\ Advance) =>
          /\ exc' = "None"
          /\ self'._k = 0
          /\ self'._ik = -1
          /\ self'._xk = GivenX0
          /\ ret'.data = GivenX0
          /\ calls' = Append(calls, ret')
          /\ yielded' = Append(yielded, ret')
          /\ did' = <<"_callback">>]_vars

\* x0 has been yielded by an engine with maxiter = 0 whose given x0 also
\* meets the tolerance.
C1_Witness ==
    /\ Constructed /\ op = "__next__" /\ self._k = 0
    /\ args.maxiter = Some(0) /\ args.x0 # None /\ TolMet(GivenX0)
    /\ Len(yielded) = 1 /\ yielded[1].data = GivenX0 /\ GivenX0 # [j \in DOMAIN GivenX0 |-> RZero]

(***************************************************************************)
(* C2: in the Active state (k >= 0) an advance raises StopIteration iff    *)
(* k >= maxiter, or tol is not None and the norm of the normalized         *)
(* residual at xk is < tol, tested on the current k and xk; in every other *)
(* case it performs an update step.                                        *)
(***************************************************************************)
C2_KReached == self._maxiter # Inf /\ self._k >= self._maxiter.val

C5_TerminatedAbsorbing ==
    [][(Constructed /\ Advance) =>
          /\ (exc' = "StopIteration") =>
                /\ self'._k = self._k /\ self'._ik = self._ik /\ self'._xk = self._xk
                /\ self' = self
                /\ calls' = calls /\ yielded' = yielded
                /\ sel' = None /\ did' = <<"_stopping_criterion">>
          /\ Raised => exc' = "StopIteration"]_vars

\* An advance has raised, after x0 and two update steps, and left the
\* engine where the next advance raises again.
C5_Witness ==
    /\ Constructed /\ Raised /\ op = "__next__" /\ self._k = 2
    /\ pc = "caller" /\ Len(yielded) = 3 /\ Len(calls) = 3
    /\ did = <<"_stopping_criterion">>
    /\ _stopping_criterion(self, self._k, self._xk)

(***************************************************************************)
(* C6: the sequence is restartable: after iter(), whether the engine had   *)
(* terminated or was mid-stream, the next advance yields x0 again with     *)
(* k = 0 and ik = -1.                                                      *)
(***************************************************************************)
C6_Restartable ==
    [][(Constructed /\ op = "__iter__" /\ Advance) =>
          /\ exc' = "None"
          /\ ret'.data = GivenX0
          /\ self'._k = 0
          /\ self'._ik = -1]_vars

(***************************************************************************)
(* C7: when the strategy returns -1 on an update step, xk is unchanged, k  *)
(* is still incremented by exactly 1, the callback is still invoked once,  *)
(* with the unchanged iterate, the unchanged iterate is yielded, and the   *)
(* ik accessor reads -1 afterwards.                                        *)
(***************************************************************************)
C7_Skip ==
    [][(Constructed /\ Advance /\ sel' = Some(-1)) =>
          /\ exc' = "None"
          /\ self'._xk = self._xk
          /\ self'._k = self._k + 1
          /\ calls' = Append(calls, xk(self))
          /\ yielded' = Append(yielded, xk(self))
          /\ ret' = xk(self)
          /\ did' = <<"_stopping_criterion", "_select_row_index", "_callback">>
          /\ ik(self') = -1]_vars

\* A Quantile engine has skipped a step after one that projected.
C7_Witness ==
    /\ Constructed /\ op = "__next__" /\ sel = Some(-1) /\ ik(self) = -1
    /\ self._k >= 2 /\ Len(yielded) = self._k + 1
    /\ yielded[self._k + 1] = yielded[self._k]
    /\ yielded[self._k] # yielded[self._k - 1]

(***************************************************************************)
(* C8: constructing an engine (directly, via iterates or via solve) with   *)
(* tol = None and maxiter = None raises ValueError at construction: there  *)
(* is no engine object and no iterate is ever produced.                    *)
(***************************************************************************)
C8_BothNoneRaises ==
    (args.tol = None /\ args.maxiter = None) =>
        /\ exc = "ValueError" /\ op = "__init__"
        /\ self = NoObject
        /\ pc = "raised"
        /\ yielded = << >> /\ calls = << >>
        /\ ret = NoValue /\ result = NoValue

\* solve(A, b, tol=None, maxiter=None) has raised ValueError.
C8_Witness ==
    /\ args.tol = None /\ args.maxiter = None /\ args.entry = "solve"
    /\ exc = "ValueError" /\ self = NoObject

(***************************************************************************)
(* C9: every engine constructed with maxiter omitted produces a finite     *)
(* sequence.  k grows by one per advance and the engine stops once         *)
(* k >= maxiter or the residual norm is < tol, so the sequence is finite   *)
(* for every system and strategy only if the cap is finite or the          *)
(* tolerance test can be met: never, after a successful advance, is       *)
(* maxiter = inf together with tol <= 0.                                   *)
(***************************************************************************)
C9_FiniteSequence ==
    (Constructed /\ args.maxiter = None /\ self._k >= 1 /\ exc = "None") =>
        ~(self._maxiter = Inf /\ ~RLt(RZero, self._tol.val))

(***************************************************************************)
(* C10: solve returns exactly the iterate yielded by the last successful   *)
(* advance before StopIteration; it returns x0 when no update step was     *)
(* performed.                                                              *)
(***************************************************************************)
C10_SolveReturnsLast ==
    pc = "returned" =>
        /\ Raised
        /\ Len(yielded) >= 1
        /\ result = yielded[Len(yielded)]
        /\ result = xk(self)
        /\ Len(yielded) = 1 => result.data = GivenX0

\* solve has returned x0 unchanged although x0 does not solve the system
\* (maxiter = 0); C10_WitnessUpdated: solve has returned an iterate other
\* than x0.
C10_Witness ==
    /\ pc = "returned" /\ Len(yielded) = 1 /\ result.data = GivenX0
    /\ args.maxiter = Some(0) /\ ~TolMet(GivenX0)

C10_WitnessUpdated ==
    /\ pc = "returned" /\ Len(yielded) >= 3 /\ result.data # GivenX0
    /\ result # yielded[Len(yielded) - 1]

(***************************************************************************)
(* C11 (as claimed): for a consistent system and tol > 0, solve with       *)
(* maxiter omitted returns x whose normalized residual norm is below tol,  *)
(* for every strategy: the run ends through the tolerance test and not     *)
(* through the derived iteration cap.                                      *)
(***************************************************************************)
\* One of the starting guesses tried with the system solves it exactly.
Consistent ==
    \E sys \in Systems :
        /\ sys.A = args.A /\ sys.b = args.b
        /\ \E v \in sys.x0s :
              \A i \in DOMAIN sys.A :
                 ISum([j \in DOMAIN v |-> sys.A[i][j] * v[j]], 0, Size(v) - 1) = sys.b[i]

\* solve(A, b, tol=tol), maxiter omitted, tol > 0, has returned.
C11_Solved ==
    /\ pc = "returned" /\ Consistent
    /\ args.maxiter = None /\ args.tol # None /\ RLt(RZero, args.tol.val)

C11_CapAt(j) ==
    LET d == Min(Size(args.A), Size(args.A[0]))
        tol == args.tol.val
    IN  IPow(10 * d - 1, j) * tol.d * tol.d <= tol.n * tol.n * IPow(10 * d, j)

C11_Cap ==
    CHOOSE j \in 0 .. MaxK : C11_CapAt(j) /\ \A i \in 0 .. j - 1 : ~C11_CapAt(i)

C13_CallbackOncePerAdvance ==
    /\ [](calls = yielded)
    /\ [][(Constructed /\ Advance) =>
            IF exc' = "None"
            THEN /\ calls' = Append(calls, ret')
                 /\ did'[Len(did')] = "_callback"
                 /\ Cardinality({i \in DOMAIN did' : did'[i] = "_callback"}) = 1
            ELSE /\ calls' = calls
                 /\ \A i \in DOMAIN did' : did'[i] # "_callback"]_vars

\* The callback has been invoked three times, with x0, with an iterate
\* that a projection changed and with one that a skipped step left as it
\* was, and then an advance has raised without invoking it.
C13_Witness ==
    /\ Constructed /\ Raised /\ Len(calls) = 3 /\ calls = yielded
    /\ calls[1].data = GivenX0 /\ calls[2] # calls[1] /\ calls[3] = calls[2]
    /\ selected = <<0, -1>>

(***************************************************************************)
(* C16: in a Cyclic engine the row projected at update step k (k >= 1) is  *)
(* order[(k-1) mod m], the identity order by default; on A = [[1,0,0],     *)
(* [0,1,0]], b = [1,1], x0 = [0,0,0] the sequence is [0,0,0], [1,0,0],     *)
(* [1,1,0] and then StopIteration (the residual is 0 after two             *)
(* projections), and [0,0,0], [0,1,0], [1,1,0] with order = [1,0].         *)
(***************************************************************************)
\* The order the engine was given, the identity by default.
C16_Order ==
    IF args.order = None THEN [i \in DOMAIN args.A |-> i] ELSE args.order.val

C16_Eye23 ==
    /\ args.A = Arr(<<Arr(<<1, 0, 0>>), Arr(<<0, 1, 0>>)>>)
    /\ args.b = Arr(<<1, 1>>)
    /\ GivenX0 = [j \in 0 .. 2 |-> RZero]

\* The first three iterates the claim gives for the order of the call.
C16_Expected ==
    IF C16_Order[0] = 0
    THEN <<Arr(<<0, 0, 0>>), Arr(<<1, 0, 0>>), Arr(<<1, 1, 0>>)>>
    ELSE <<Arr(<<0, 0, 0>>), Arr(<<0, 1, 0>>), Arr(<<1, 1, 0>>)>>

C16_CyclicRows ==
    /\ [](Constructed /\ args.cls = "Cyclic" =>
            /\ \A j \in 1 .. Len(selected) :
                  selected[j] = C16_Order[(j - 1) % Size(args.A)]
            /\ Len(selected) = (IF self._k >= 1 THEN self._k ELSE 0)
            /\ self._k >= 1 => ik(self) = C16_Order[(self._k - 1) % Size(args.A)]
            /\ C16_Eye23 =>
                  \A j \in 1 .. Min(Len(yielded), 3) :
                     yielded[j].data = [i \in 0 .. 2 |-> Int2Rat(C16_Expected[j][i])])
    /\ [][(Constructed /\ args.cls = "Cyclic" /\ C16_Eye23 /\ Advance
            /\ Len(yielded) = 3 /\ args.tol # None /\ RLt(RZero, args.tol.val)) =>
            exc' = "StopIteration"]_vars

\* Cyclic.iterates(eye23, ones2, x0 = [0,0,0], order = [1,0]) has yielded
\* [0,0,0], [0,1,0], [1,1,0] and then raised StopIteration before its
\* maxiter.
C16_Witness ==
    /\ Constructed /\ args.cls = "Cyclic" /\ C16_Eye23 /\ args.order # None
    /\ args.x0 # None /\ args.entry = "iterates"
    /\ Raised /\ Len(yielded) = 3 /\ selected = <<1, 0>>
    /\ yielded[2].data = [i \in 0 .. 2 |-> Int2Rat(C16_Expected[2][i])]
    /\ ~C2_KReached

(***************************************************************************)
(* C19: Quantile's selector draws one candidate row and returns it iff its *)
(* distance |b_ik - a_ik . xk| is at most, or numerically close to, the    *)
(* configured quantile of the absolute residuals |b - A @ xk| over all     *)
(* rows of the normalized system; otherwise it returns -1.  It never       *)
(* returns a row other than the drawn candidate.                           *)
(***************************************************************************)
\* |(b_i - A_i . v) / ||A_i||| for each row i of the system as given.
C19_AbsResiduals(v) ==
    [i \in DOMAIN args.A |->
        LET r == RSub(Int2Rat(args.b[i]),
                      RSum([j \in DOMAIN v |-> RMul(Int2Rat(args.A[i][j]), v[j])],
                           0, Size(v) - 1))
            n2 == ISum([j \in DOMAIN args.A[i] |-> args.A[i][j] * args.A[i][j]],
                       0, Size(args.A[i]) - 1)
        IN  RAbs(RDiv(r, Int2Rat(ISqrt(n2))))]

C19_QuantileAccepts ==
    [][(Constructed /\ args.cls = "Quantile" /\ Advance /\ sel' # None) =>
          LET dists == C19_AbsResiduals(xarg')
              threshold == np_quantile(dists, args.quantile)
              c == draws'[1]
          IN  /\ Len(draws') = 1
              /\ c \in 0 .. Size(args.A) - 1
              /\ xarg' = self._xk
              /\ sel'.val \in {c, -1}
              /\ (sel'.val = c) <=>
                    (RLe(dists[c], threshold) \/ np_isclose(dists[c], threshold))]_vars

\* A Quantile(quantile = 1/2) engine has accepted the drawn row 0 and
\* then rejected the drawn row 1, whose residual is above the median.
C19_Witness ==
    /\ Constructed /\ args.cls = "Quantile" /\ args.quantile = Rat(1, 2)
    /\ op = "__next__" /\ sel = Some(-1) /\ draws = <<1>>
    /\ selected = <<0, -1>>
    /\ RLt(np_quantile(C19_AbsResiduals(xarg), args.quantile), C19_AbsResiduals(xarg)[1])

(***************************************************************************)
(* C14: every yielded iterate, every callback argument and every result of *)
(* the xk accessor is a fresh copy: an in-place write into any of them     *)
(* changes neither the engine's xk nor its x0, so all later iterates are   *)
(* those of an engine nobody has written into.                             *)
(***************************************************************************)
\* The engine after j successful advances that nothing interfered with
\* (the selectors of these engines are deterministic).
RECURSIVE C14_Engine(_)
C14_Engine(j) ==
    IF j = 1 THEN InitialIterate(New(args).self)
    ELSE LET s == C14_Engine(j - 1)
         IN  UpdateStep(CHOOSE o \in _select_row_index(IncrementK(s), s._xk) : TRUE)

C14_FreshCopies ==
    /\ [](Constructed =>
            /\ self._x0 = GivenX0
            /\ self._k >= 0 => self._xk = C14_Engine(self._k + 1)._xk
            /\ \A j \in 1 .. Len(yielded) :
                  /\ yielded[j].data = C14_Engine(j)._xk
                  /\ calls[j].data = C14_Engine(j)._xk)
    /\ [][(op' = "mutate") =>
            /\ self' = self
            /\ ret'.data # ret.data \/ ret.data = [j \in DOMAIN ret.data |-> Int2Rat(7)]]_vars
    /\ [][(op' = "xk" /\ exc' = "None") => (ret'.data = self._xk /\ self' = self)]_vars

\* With a callback that writes into its argument, the caller has written
\* 7s into the third iterate it was handed, and the engine still holds
\* the iterate that two undisturbed update steps give.
C14_Witness ==
    /\ Constructed /\ args.callback = "mutate" /\ op = "mutate"
    /\ Len(yielded) = 3 /\ self._k = 2
    /\ ret.data = [j \in DOMAIN ret.data |-> Int2Rat(7)]
    /\ self._xk = C14_Engine(3)._xk /\ self._xk # ret.data
    /\ yielded[3] # yielded[2] /\ yielded[2] # yielded[1]

(***************************************************************************)
(* C15: Cyclic determinism: on an m-row system the j-th call (j = 0, 1,    *)
(* 2, ...) of Cyclic's selector returns j mod m whatever xk it is passed;  *)
(* with a supplied order the successive calls return order[0], order[1],   *)
(* ... cyclically.  The calls are those the caller makes itself and those  *)
(* the engine's update steps make, in any interleaving.                    *)
(***************************************************************************)
C15_CyclicSelector ==
    /\ [](Constructed /\ args.cls = "Cyclic" =>
            \A j \in 1 .. Len(selected) :
               selected[j] = C16_Order[(j - 1) % Size(args.A)])
    /\ [][(Constructed /\ args.cls = "Cyclic" /\ op' = "_select_row_index") =>
            /\ exc' = "None"
            /\ xarg' \in SelectXs
            /\ sel' = Some(C16_Order[Len(selected) % Size(args.A)])
            /\ selected' = Append(selected, sel'.val)]_vars

\* The third call of the selector of Cyclic(eye23, ones2, order = [1,0]),
\* made by the caller with xk = [0,3,0], has returned order[2 mod 2] = 1.
C15_Witness ==
    /\ Constructed /\ args.cls = "Cyclic" /\ args.order = Some(Arr(<<1, 0>>))
    /\ op = "_select_row_index" /\ selected = <<1, 0, 1>>
    /\ xarg = [j \in 0 .. 2 |-> Int2Rat(Arr(<<0, 3, 0>>)[j])]

(***************************************************************************)
(* C17: MaxDistance's selector returns, for every xk, the lowest index i   *)
(* among the rows maximizing |b_i - a_i . xk| over the normalized system   *)
(* (row 1 for three identical rows whose residuals at x0 are 0, 1, 0).     *)
(***************************************************************************)
C17_MaxDistanceArgmax ==
    [][(Constructed /\ args.cls = "MaxDistance" /\ sel' # None) =>
          LET d == C19_AbsResiduals(xarg')
              i == sel'.val
          IN  /\ i \in DOMAIN args.A
              /\ \A j \in DOMAIN args.A : RLe(d[j], d[i])
              /\ \A j \in DOMAIN args.A : j < i => RLt(d[j], d[i])
              /\ self' = [self EXCEPT !._k = self'._k, !._ik = self'._ik,
                                     !._xk = self'._xk]]_vars

\* MaxDistance.iterates([[2,2,1]] * 3, [5,8,5], x0 = [1,1,1]): after two
\* advances ik reads 1.
C17_Witness ==
    /\ Constructed /\ args.cls = "MaxDistance"
    /\ args.A = Arr(<<Arr(<<2, 2, 1>>), Arr(<<2, 2, 1>>), Arr(<<2, 2, 1>>)>>)
    /\ args.b = Arr(<<5, 8, 5>>)
    /\ GivenX0 = [j \in 0 .. 2 |-> Int2Rat(1)]
    /\ op = "__next__" /\ Len(yielded) = 2 /\ ik(self) = 1 /\ selected = <<1>>

(***************************************************************************)
(* C18: MaxDistanceLookahead's selector strictly alternates: on a call     *)
(* with an empty cache it computes from the xk it is passed the ordered    *)
(* row pair (i, j) maximizing the two-step squared-residual reduction,     *)
(* returns i and caches j; on the very next call it returns the cached j   *)
(* whatever xk it is passed, and empties the cache.                        *)
(***************************************************************************)
\* (b_i - A_i . v) / ||A_i|| for the system as given.
C18_Residual(v, i) ==
    RDiv(RSub(Int2Rat(args.b[i]),
              RSum([l \in DOMAIN v |-> RMul(Int2Rat(args.A[i][l]), v[l])],
                   0, Size(v) - 1)),
         Int2Rat(ISqrt(ISum([l \in DOMAIN args.A[i] |-> args.A[i][l] * args.A[i][l]],
                            0, Size(args.A[i]) - 1))))

\* The cosine of the angle between rows i and j of the system as given.
C18_Cos(i, j) ==
    Rat(ISum([l \in DOMAIN args.A[i] |-> args.A[i][l] * args.A[j][l]],
             0, Size(args.A[i]) - 1),
        ISqrt(ISum([l \in DOMAIN args.A[i] |-> args.A[i][l] * args.A[i][l]],
                   0, Size(args.A[i]) - 1))
        * ISqrt(ISum([l \in DOMAIN args.A[j] |-> args.A[j][l] * args.A[j][l]],
                     0, Size(args.A[j]) - 1)))

\* By how much projecting onto row i and then onto row j reduces the
\* squared distance to the solution set: r_i^2 + (r_j - cos(i,j) r_i)^2.
C18_Reduction(v, i, j) ==
    LET after == RSub(C18_Residual(v, j), RMul(C18_Cos(i, j), C18_Residual(v, i)))
    IN  RAdd(RMul(C18_Residual(v, i), C18_Residual(v, i)), RMul(after, after))

C18_LookaheadAlternates ==
    /\ [](Constructed /\ args.cls = "MaxDistanceLookahead" =>
            ((self._next_i = None) <=> (Len(selected) % 2 = 0)))
    /\ [][(Constructed /\ args.cls = "MaxDistanceLookahead" /\ sel' # None) =>
            IF self._next_i = None
            THEN \E j \in DOMAIN args.A :
                    /\ self'._next_i = Some(j)
                    /\ \A a \in DOMAIN args.A : \A c \in DOMAIN args.A :
                          RLe(C18_Reduction(xarg', a, c),
                              C18_Reduction(xarg', sel'.val, j))
            ELSE /\ sel' = Some(self._next_i.val)
                 /\ self'._next_i = None]_vars

\* On rows [1,0], [0,1], [3,4] the selector has returned row 0 and then,
\* called by the caller with xk = [2,-1], the cached row 1, where a
\* computation from that xk returns row 0.
C18_Witness ==
    /\ Constructed /\ args.cls = "MaxDistanceLookahead"
    /\ args.A = Arr(<<Arr(<<1, 0>>), Arr(<<0, 1>>), Arr(<<3, 4>>)>>)
    /\ op = "_select_row_index" /\ selected = <<0, 1>> /\ self._next_i = None
    /\ xarg = [j \in 0 .. 1 |-> Int2Rat(Arr(<<2, -1>>)[j])]
    /\ \A o \in MaxDistanceLookahead_select_row_index(self, xarg) : o.ik = 0

(***************************************************************************)
(* C20: selectable-set soundness, in exact arithmetic: in every reachable  *)
(* state of a RandomOrthoGraph or ParallelOrthoUpdate engine every row     *)
(* that is not selectable is satisfied by the current iterate              *)
(* (a_i . xk = b_i); equivalently every row with a non-zero residual is    *)
(* selectable.  Before the first advance the current iterate is x0.        *)
(***************************************************************************)
\* Row i of the system as given holds at v.
C20_Satisfied(v, i) ==
    RSum([j \in DOMAIN v |-> RMul(Int2Rat(args.A[i][j]), v[j])], 0, Size(v) - 1)
        = Int2Rat(args.b[i])

C20_Current == IF self._k = -1 THEN GivenX0 ELSE self._xk

C20_SelectableSound ==
    (Constructed /\ args.cls \in {"RandomOrthoGraph", "ParallelOrthoUpdate"}) =>
        \A i \in DOMAIN args.A :
            /\ ~self._selectable[i] => C20_Satisfied(C20_Current, i)
            /\ ~C20_Satisfied(C20_Current, i) => self._selectable[i]

\* On rows [1,0], [0,1], [3,4] with b = [0,1,4] and x0 = [0,0], row 0
\* held at x0 and was not selectable; the projection onto row 2, which
\* is not orthogonal to it, has made it selectable again, and it does not
\* hold any more.
C20_Witness ==
    /\ Constructed /\ args.cls \in {"RandomOrthoGraph", "ParallelOrthoUpdate"}
    /\ args.A = Arr(<<Arr(<<1, 0>>), Arr(<<0, 1>>), Arr(<<3, 4>>)>>)
    /\ GivenX0 = [j \in 0 .. 1 |-> RZero] /\ C20_Satisfied(GivenX0, 0)
    /\ self._k = 1 /\ op = "__next__"
    /\ self._selectable = Arr(<<TRUE, TRUE, FALSE>>)
    /\ ~C20_Satisfied(self._xk, 0) /\ C20_Satisfied(self._xk, 2)

C21_OrthogonalUnsatisfied ==
    /\ \A i, j \in DOMAIN args.A : i # j => Gramian(self._A)[i][j] = RZero
    /\ \A i \in DOMAIN args.A : ~C20_Satisfied(GivenX0, i)

C21_SelectableSize ==
    (Constructed /\ args.cls = "RandomOrthoGraph" /\ C21_OrthogonalUnsatisfied) =>
        /\ self._k <= 0 => len(selectable(self)) = self._n_rows
        /\ (self._k \in 1 .. self._n_rows /\ exc = "None") =>
               len(selectable(self)) = self._n_rows - self._k
        /\ (self._k > self._n_rows /\ args.tol # None) => FALSE

\* The number of rows the mask marks selectable.
C21_Count == Cardinality({i \in DOMAIN self._selectable : selectable(self)[i]})

\* The same statement with the number of True entries of the mask in the
\* place of its length: this one holds.
C21_SelectableCount ==
    (Constructed /\ args.cls = "RandomOrthoGraph" /\ C21_OrthogonalUnsatisfied) =>
        /\ self._k <= 0 => C21_Count = self._n_rows
        /\ (self._k \in 1 .. self._n_rows /\ exc = "None") =>
               C21_Count = self._n_rows - self._k
        /\ (self._k > self._n_rows /\ args.tol # None) => FALSE

(***************************************************************************)
(* C22: every batch ParallelOrthoUpdate's selector returns has at most q   *)
(* rows, no row twice, only rows that were selectable when the call began, *)
(* and pairwise orthogonal rows; it has fewer than q rows only when no     *)
(* selectable row orthogonal to all rows of the batch remains.             *)
(***************************************************************************)
\* Rows i and j of the normalized system have a zero Gram entry.
C22_Orthogonal(i, j) == Dot(self._A[i], self._A[j]) = RZero

C22_Batch(tauk, began) ==
    /\ Len(tauk) <= self._q
    /\ \A e, f \in 1 .. Len(tauk) : e # f => tauk[e] # tauk[f]
    /\ \A e \in 1 .. Len(tauk) : began[tauk[e]]
    /\ \A e, f \in 1 .. Len(tauk) : e # f => C22_Orthogonal(tauk[e], tauk[f])
    /\ Len(tauk) < self._q =>
           ~\E i \in DOMAIN began :
               began[i] /\ \A e \in 1 .. Len(tauk) : C22_Orthogonal(i, tauk[e])

C22_OrthogonalBatch ==
    [][(Constructed /\ args.cls = "ParallelOrthoUpdate" /\ Advance
            /\ self._k >= 0 /\ exc' = "None") =>
        C22_Batch(sel'.val, self._selectable)]_vars

\* On rows [1,0], [0,1], [3,4] with b = [0,1,4], x0 = [0,0] and q = 2,
\* rows 1 and 2 were selectable and not orthogonal: the batch is one row.
C22_Witness ==
    /\ Constructed /\ args.cls = "ParallelOrthoUpdate" /\ args.q = Some(2)
    /\ args.A = Arr(<<Arr(<<1, 0>>), Arr(<<0, 1>>), Arr(<<3, 4>>)>>)
    /\ GivenX0 = [j \in 0 .. 1 |-> RZero]
    /\ op = "__next__" /\ exc = "None" /\ self._k = 1
    /\ sel = Some(<<2>>) /\ ~C22_Orthogonal(1, 2)

(***************************************************************************)
(* C23: when at least two rows have positive sampling probability, the     *)
(* index Nonrepetitive's selector returns never equals the engine's ik of  *)
(* the previous step (and the selector does return), so no row is          *)
(* projected onto in two consecutive update steps.                         *)
(***************************************************************************)
C23_TwoPositive ==
    \/ args.p = None /\ Size(args.A) >= 2
    \/ /\ args.p # None
       /\ Cardinality({i \in DOMAIN args.A : RLt(RZero, args.p.val[i])}) >= 2

C23_NeverRepeats ==
    /\ []((Constructed /\ args.cls = "Nonrepetitive" /\ C23_TwoPositive
               /\ self._k >= 0) =>
            /\ _select_row_index(self, self._xk) # {}
            /\ \A o \in _select_row_index(self, self._xk) :
                   o.exc = "None" /\ o.ik # ik(self))
    /\ [][(Constructed /\ args.cls = "Nonrepetitive" /\ C23_TwoPositive
               /\ Advance /\ self._k >= 0 /\ exc' = "None") =>
            /\ sel'.val # ik(self)
            /\ ik(self') # ik(self)]_vars

\* The second update step first drew the row of the first update step,
\* rejected it, and returned another row.
C23_Witness ==
    /\ Constructed /\ args.cls = "Nonrepetitive" /\ C23_TwoPositive
    /\ op = "__next__" /\ exc = "None" /\ self._k = 2
    /\ Len(selected) = 2 /\ Len(draws) = 2
    /\ draws[1] = selected[1] /\ draws[2] = selected[2]
    /\ sel = Some(ik(self)) /\ ik(self) # selected[1]

(***************************************************************************)
(* C24: RelaxedGreedy's selector returns only rows of its eligible set     *)
(* (rows whose row-norm-weighted squared residual is at least epsilon      *)
(* times the total squared residual times the squared row norm); when the  *)
(* eligible set is empty it raises an error and returns no index.          *)
(***************************************************************************)
\* The squared norm of row i of the system as given.
C24_RowNormSq(i) ==
    Int2Rat(ISum([j \in DOMAIN args.A[i] |-> args.A[i][j] * args.A[i][j]],
                 0, Size(args.A[i]) - 1))

\* (b_i - a_i . v)^2 for the system as given.
C24_WeightedResidualSq(v, i) ==
    LET r == RSub(Int2Rat(args.b[i]),
                  RSum([j \in DOMAIN v |-> RMul(Int2Rat(args.A[i][j]), v[j])],
                       0, Size(v) - 1))
    IN  RMul(r, r)

C24_Total(v) ==
    RSum([i \in DOMAIN args.A |-> C24_WeightedResidualSq(v, i)], 0, Size(args.A) - 1)

C24_Epsilon(v, i) ==
    RAdd(RMul(RDiv(args.theta, C24_Total(v)),
              RDiv(C24_WeightedResidualSq(v, i), C24_RowNormSq(i))),
         RDiv(RSub(Int2Rat(1), args.theta),
              RSum([j \in DOMAIN args.A |-> C24_RowNormSq(j)], 0, Size(args.A) - 1)))

\* The eligible rows at v; none when the total squared residual is 0.
C24_Eligible(v) ==
    IF C24_Total(v) = RZero THEN {}
    ELSE {i \in DOMAIN args.A :
            RLe(RMul(RMul(C24_Epsilon(v, i), C24_Total(v)), C24_RowNormSq(i)),
                C24_WeightedResidualSq(v, i))}

C24_EligibleOnly ==
    [][(Constructed /\ args.cls = "RelaxedGreedy" /\ Advance /\ self._k >= 0
            /\ exc' # "StopIteration") =>
        /\ exc' = "None" => sel'.val \in C24_Eligible(self._xk)
        /\ C24_Eligible(self._xk) = {} =>
              /\ exc' = "Exception"
              /\ sel' = None /\ ret' = NoValue
              /\ self'._xk = self._xk /\ ik(self') = ik(self)]_vars

\* On eye22 with b = [1,2], x0 = 0 and theta = 0.5 the selector returned
\* row 1, the only eligible row, then row 0; at the solution [1,2] no row
\* is eligible and the call raised.
C24_Witness ==
    /\ Constructed /\ args.cls = "RelaxedGreedy" /\ args.theta = Rat(1, 2)
    /\ args.b = Arr(<<1, 2>>) /\ GivenX0 = [j \in 0 .. 1 |-> RZero]
    /\ C24_Eligible(GivenX0) = {1}
    /\ selected = <<1, 0>>
    /\ op = "__next__" /\ exc = "Exception"
    /\ C24_Eligible(xarg) = {} /\ xarg = self._xk

(***************************************************************************)
(* C25: strategy lookup by name resolves exactly the registered concrete   *)
(* strategies: for every (name, class) entry of selection.strategies the   *)
(* lookup returns that class, and for every other name ('NotARealStrategy',*)
(* and also the abstract base's own name 'SelectionStrategy') it raises    *)
(* SelectionStrategyNotFoundError, constructing nothing.                   *)
(***************************************************************************)
C25_LookupExact ==
    \A e \in 1 .. Len(lookups) :
        IF lookups[e].name \in DOMAIN strategies
        THEN lookups[e].exc = "None" /\ lookups[e].ret = strategies[lookups[e].name]
        ELSE lookups[e].exc = "SelectionStrategyNotFoundError" /\ self = NoObject

(***************************************************************************)
(* C26: every yielded iterate, the initial one and every later one, has    *)
(* the shape of x0 when x0 is supplied ((n,) stays (n,), (n,1) stays       *)
(* (n,1)); when x0 is omitted it has the shape of b with the leading       *)
(* dimension replaced by the column count n.                               *)
(***************************************************************************)
C26_Shape ==
    IF args.x0 # None THEN args.x0.val.shape
    ELSE <<Size(args.A[0])>> \o Tail(args.b_shape)

C26_ShapePreserved ==
    Constructed =>
        /\ \A e \in 1 .. Len(yielded) : yielded[e].shape = C26_Shape
        /\ ret # NoValue => ret.shape = C26_Shape

\* With x0 omitted and b of shape (2, 1), the iterate after the first
\* update step has shape (3, 1) and is not the initial one.
C26_Witness ==
    /\ Constructed /\ args.x0 = None /\ args.b_shape = <<2, 1>>
    /\ Len(yielded) = 2 /\ yielded[2].data # yielded[1].data
    /\ yielded[1].shape = <<3, 1>> /\ yielded[2].shape = <<3, 1>>

(***************************************************************************)
(* C27: for every A without zero rows, normalize_system(A, b) returns a    *)
(* matrix whose row i is A[i] divided by ||A[i]|| (unit Euclidean norm), a *)
(* vector whose entry i is b[i] / ||A[i]||, and the vector of the original *)
(* row norms, all > 0.                                                     *)
(***************************************************************************)
C27_Normalized ==
    pc = "returned" =>
        /\ DOMAIN result.A = DOMAIN args.A
        /\ DOMAIN result.b = DOMAIN args.b
        /\ DOMAIN result.row_norms = DOMAIN args.A
        /\ \A i \in DOMAIN args.A :
              /\ result.row_norms[i] > 0
              /\ result.row_norms[i] * result.row_norms[i]
                    = ISum([j \in DOMAIN args.A[i] |-> args.A[i][j] * args.A[i][j]],
                           0, Size(args.A[i]) - 1)
              /\ DOMAIN result.A[i] = DOMAIN args.A[i]
              /\ \A j \in DOMAIN args.A[i] :
                    RMul(result.A[i][j], Int2Rat(result.row_norms[i]))
                        = Int2Rat(args.A[i][j])
              /\ NormSq(result.A[i]) = Int2Rat(1)
              /\ RMul(result.b[i], Int2Rat(result.row_norms[i])) = Int2Rat(args.b[i])

\* Rows [3,4] and [0,-2] with b = [2,-1]: norms 5 and 2, rows
\* [3/5, 4/5] and [0, -1], right-hand side [2/5, -1/2].
C27_Witness ==
    /\ pc = "returned" /\ op = "normalize_system"
    /\ args.A = Arr(<<Arr(<<3, 4>>), Arr(<<0, -2>>)>>) /\ args.b = Arr(<<2, -1>>)
    /\ result.row_norms = Arr(<<5, 2>>)
    /\ result.A = Arr(<<Arr(<<Rat(3, 5), Rat(4, 5)>>), Arr(<<Rat(0, 1), Rat(-1, 1)>>)>>)
    /\ result.b = Arr(<<Rat(2, 5), Rat(-1, 2)>>)

(***************************************************************************)
(* C28: after an update step that projects onto row i the new iterate      *)
(* satisfies equation i exactly (a_i . x' = b_i), for every x and every    *)
(* row; on a single-row system one update step therefore reaches a         *)
(* solution ([0,0,3/5,4/5] for A = [[0,0,3,4]], b = [5], x0 = 0) and, a    *)
(* tolerance being set as by default, the next advance raises              *)
(* StopIteration.                                                          *)
(***************************************************************************)
C28_SingleRow == Size(args.A) = 1

C28_ProjectionExact ==
    /\ [][(Constructed /\ Advance /\ self._k >= 0 /\ exc' = "None"
               /\ sel'.val # -1) =>
            /\ C20_Satisfied(self'._xk, sel'.val)
            /\ C28_SingleRow => ResidualNormSq(self'._xk) = RZero]_vars
    /\ [][(Constructed /\ Advance /\ C28_SingleRow /\ self._k >= 1
               /\ args.tol # None /\ RLt(RZero, args.tol.val)) =>
            exc' = "StopIteration"]_vars

\* The engine of test_single_row_matrix: tol set, maxiter derived, x0
\* omitted; the update step gave [0,0,3/5,4/5], where the residual at x0
\* was not 0, and the advance after it raised StopIteration.
C28_Witness ==
    /\ Constructed /\ args.cls = "Dummy" /\ args.x0 = None
    /\ args.A = Arr(<<Arr(<<0, 0, 3, 4>>)>>) /\ args.b = Arr(<<5>>)
    /\ args.tol # None /\ args.maxiter = None
    /\ ~C20_Satisfied(GivenX0, 0)
    /\ self._k = 1 /\ selected = <<0>>
    /\ self._xk = Arr(<<RZero, RZero, Rat(3, 5), Rat(4, 5)>>)
    /\ op = "__next__" /\ exc = "StopIteration"

(***************************************************************************)
(* C29: for a consistent system with exact solution x*, the error          *)
(* ||x_k - x*|| of the yielded iterates is non-increasing in k along the   *)
(* whole sequence, for every strategy.                                     *)
(***************************************************************************)
\* The solutions of the system as given with entries in -1 .. 2.
C29_Solutions ==
    {v \in [DOMAIN args.A[0] -> {Int2Rat(z) : z \in -1 .. 2}] :
        \A i \in DOMAIN args.A : C20_Satisfied(v, i)}

\* ||v - x_exact||^2
C29_ErrorSq(v, x_exact) == NormSq(VecSub(v, x_exact))

C29_Monotone ==
    Constructed =>
        \A x_exact \in C29_Solutions :
            \A e \in 1 .. Len(yielded) - 1 :
                RLe(C29_ErrorSq(yielded[e + 1].data, x_exact),
                    C29_ErrorSq(yielded[e].data, x_exact))

\* On rows [3,4], [1,0] with b = [7,1] from x0 = [2,-1] the squared
\* error to the solution [1,1] went 5, 4, 36/25.
C29_Witness ==
    /\ Constructed /\ args.A = Arr(<<Arr(<<3, 4>>), Arr(<<1, 0>>)>>)
    /\ C29_Solutions = {Arr(<<Int2Rat(1), Int2Rat(1)>>)}
    /\ Len(yielded) = 3
    /\ C29_ErrorSq(yielded[1].data, Arr(<<Int2Rat(1), Int2Rat(1)>>)) = Int2Rat(5)
    /\ C29_ErrorSq(yielded[2].data, Arr(<<Int2Rat(1), Int2Rat(1)>>)) = Int2Rat(4)
    /\ C29_ErrorSq(yielded[3].data, Arr(<<Int2Rat(1), Int2Rat(1)>>)) = Rat(36, 25)

(***************************************************************************)
(* C30: whenever the engine invokes RandomOrthoGraph's selector, at least  *)
(* one row is selectable with positive weight, in every reachable state    *)
(* and for every stopping configuration (also tol = None with maxiter      *)
(* larger than the number of steps needed to satisfy all rows), so the     *)
(* renormalization p / p.sum() never divides by zero and the selector      *)
(* never fails.                                                            *)
(***************************************************************************)
C30_SelectorNeverFails ==
    [][(Constructed /\ args.cls = "RandomOrthoGraph" /\ Advance /\ self._k >= 0
            /\ exc' # "StopIteration") =>
        /\ \E i \in DOMAIN self._selectable : self._selectable[i] /\ self._p[i] > 0
        /\ exc' = "None"]_vars

(***************************************************************************)
(* C31: when RandomOrthoGraph selects row i, afterwards row i is not       *)
(* selectable, every other row j that is not orthogonal to i is            *)
(* selectable, and every row orthogonal to i keeps the selectable status   *)
(* it had before the call.                                                 *)
(***************************************************************************)
\* Rows i and j of the system as given are orthogonal.
C31_Orthogonal(i, j) ==
    ISum([c \in DOMAIN args.A[i] |-> args.A[i][c] * args.A[j][c]],
         0, Size(args.A[i]) - 1) = 0

C31_SelectableFrame ==
    [][(Constructed /\ args.cls = "RandomOrthoGraph" /\ Advance /\ self._k >= 0
            /\ exc' = "None") =>
        /\ ~self'._selectable[sel'.val]
        /\ \A j \in DOMAIN args.A \ {sel'.val} :
              IF C31_Orthogonal(sel'.val, j)
              THEN self'._selectable[j] = self._selectable[j]
              ELSE self'._selectable[j]]_vars

\* On rows [1,0], [0,1], [3,4] with b = [0,1,4] the engine selected row
\* 2, which is orthogonal to neither other row: row 2 is unselectable and
\* rows 0 and 1 are selectable.
C31_Witness ==
    /\ Constructed /\ args.cls = "RandomOrthoGraph"
    /\ args.A = Arr(<<Arr(<<1, 0>>), Arr(<<0, 1>>), Arr(<<3, 4>>)>>)
    /\ op = "__next__" /\ exc = "None"
    /\ self._k >= 1 /\ sel = Some(2)
    /\ ~C31_Orthogonal(2, 0) /\ ~C31_Orthogonal(2, 1) /\ C31_Orthogonal(0, 1)
    /\ selectable(self) = Arr(<<TRUE, TRUE, FALSE>>)

(***************************************************************************)
(* C32: after one engine step of ParallelOrthoUpdate with batch T, every   *)
(* row of T is satisfied by the new iterate (a_i . xk = b_i for all i in   *)
(* T) and every row of T is unselectable.                                  *)
(***************************************************************************)
C32_BatchSatisfied ==
    [][(Constructed /\ args.cls = "ParallelOrthoUpdate" /\ Advance /\ self._k >= 0
            /\ exc' = "None") =>
        \A e \in 1 .. Len(sel'.val) :
            /\ C20_Satisfied(self'._xk, sel'.val[e])
            /\ ~self'._selectable[sel'.val[e]]]_vars

\* On eye33 / ones3 from x0 = 0 with q = 2 the first update step took a
\* batch of two rows, neither of which held at x0; both hold now and the
\* third row does not.
C32_Witness ==
    /\ Constructed /\ args.cls = "ParallelOrthoUpdate" /\ args.q = Some(2)
    /\ Size(args.A) = 3 /\ GivenX0 = [j \in 0 .. 2 |-> RZero]
    /\ \A i \in DOMAIN args.A : ~C20_Satisfied(GivenX0, i)
    /\ op = "__next__" /\ exc = "None" /\ self._k = 1
    /\ Len(sel.val) = 2
    /\ \A e \in 1 .. 2 : C20_Satisfied(self._xk, sel.val[e])
                            /\ ~selectable(self)[sel.val[e]]
    /\ \E i \in DOMAIN args.A : ~C20_Satisfied(self._xk, i)

(***************************************************************************)
(* C33: for Quantile-family strategies, when the reference distance        *)
(* collection is empty (SampledQuantile with n_samples = 0,                *)
(* WindowedQuantile with window_size = 0) the threshold is 0 and the       *)
(* selector still returns normally: the candidate is accepted iff its      *)
(* distance is (close to) 0, otherwise the selector returns -1.            *)
(***************************************************************************)
C33_EmptyReference ==
    \/ args.cls = "SampledQuantile" /\ self._n_samples = 0
    \/ args.cls = "WindowedQuantile" /\ self._window.maxlen = 0

C33_ThresholdZero ==
    [][(Constructed /\ C33_EmptyReference /\ Advance /\ draws' # << >>) =>
        /\ exc' = "None"
        /\ sel' = Some(IF np_isclose(Quantile_distance(self, xarg', draws'[1]), RZero)
                       THEN draws'[1]
                       ELSE -1)]_vars

(***************************************************************************)
(* C34: after any sequence of selector calls, WindowedQuantile's window    *)
(* holds only distances of candidates that were accepted (a rejected       *)
(* candidate's distance is not retained), limited to the most recent       *)
(* window_size of them.                                                    *)
(***************************************************************************)
\* A selector call of a WindowedQuantile engine that returned.
C34_Selects ==
    /\ Constructed /\ args.cls = "WindowedQuantile"
    /\ Advance /\ draws' # << >> /\ exc' = "None"

\* The last n items of the sequence w.
C34_MostRecent(w, n) ==
    IF Len(w) <= n THEN w ELSE SubSeq(w, Len(w) - n + 1, Len(w))

\* As stated: the window takes in the distance of an accepted candidate
\* and is left alone by a rejected one.
C34_AcceptedOnly ==
    [][C34_Selects =>
        self'._window.items =
            IF sel'.val = -1
            THEN self._window.items
            ELSE C34_MostRecent(
                     Append(self._window.items,
                            Quantile_distance(self, xarg', draws'[1])),
                     self._window.maxlen)]_vars

\* Amended: the window holds the distances of the most recent window_size
\* candidates drawn, accepted or rejected.
C34_EveryCandidate ==
    [][C34_Selects =>
        self'._window.items =
            C34_MostRecent(
                Append(self._window.items,
                       Quantile_distance(self, xarg', draws'[1])),
                self._window.maxlen)]_vars

\* WindowedQuantile(window_size = 2, quantile = 1/2): the call before
\* accepted and the window was full; this call rejected row 1 at
\* distance 2, which is now the newest item, and the oldest was dropped.
C34_Witness ==
    /\ Constructed /\ args.cls = "WindowedQuantile"
    /\ args.window_size = Some(2) /\ args.quantile = Rat(1, 2)
    /\ op = "__next__" /\ exc = "None"
    /\ Len(selected) >= 3
    /\ selected[Len(selected)] = -1 /\ selected[Len(selected) - 1] # -1
    /\ draws = <<1>>
    /\ Quantile_distance(self, xarg, 1) = Rat(2, 1)
    /\ Len(self._window.items) = 2
    /\ self._window.items[2] = Rat(2, 1)

(***************************************************************************)
(* C35: on a single-row system Nonrepetitive degenerates to an infinite    *)
(* loop: once row 0 has been projected (ik = 0) the selector never         *)
(* returns, so an engine with tol = None and maxiter >= 2 never completes  *)
(* its second update step.                                                 *)
(***************************************************************************)
C35_SingleRow ==
    Constructed /\ args.cls = "Nonrepetitive" /\ Size(args.A) = 1

\* No advance made with ik = 0 gets an answer from the selector: it ends
\* in StopIteration before the selector is asked, or it does not end; and
\* k never passes 1.
C35_NeverReturns ==
    [][(C35_SingleRow /\ self._ik = 0 /\ Advance) =>
        /\ sel' = None /\ exc' = "StopIteration"
        /\ self'._k = 1]_vars

\* Nonrepetitive on [0,0,3,4] x = 5 with tol = None and maxiter >= 2 after
\* its first update step: the stopping test lets the second step start,
\* and the selector call of that step has no outcome.
C35_Witness ==
    /\ C35_SingleRow /\ args.tol = None
    /\ args.maxiter \in {Some(m) : m \in 2 .. MaxIter + 1}
    /\ op = "__next__" /\ exc = "None"
    /\ self._k = 1 /\ self._ik = 0 /\ selected = <<0>>
    /\ ~_stopping_criterion(self, self._k, self._xk)
    /\ _select_row_index(IncrementK(self), self._xk) = {}

(***************************************************************************)
(* C36: normalizing a system that contains an all-zero row fails with an   *)
(* explicit error at that point, rather than returning a matrix or a       *)
(* right-hand side with NaN or infinite entries.                           *)
(***************************************************************************)
C36_ZeroRowRaises ==
    (op = "normalize_system" /\ \E i \in DOMAIN args.A : args.A[i] = ZeroRow) =>
        /\ exc # "None"
        /\ result = NoValue

(***************************************************************************)
(* C37: re-traversal is side-effect free: traversing the same engine       *)
(* object twice with a deterministic strategy (Cyclic) yields the same     *)
(* sequence of iterates both times, also when the first traversal stopped  *)
(* in the middle of a cycle: no state of the first traversal (k, ik, xk or *)
(* the strategy's rotating index) carries over into the second.            *)
(***************************************************************************)
\* The first advance of a second traversal of a Cyclic engine returns what
\* the first advance of the first traversal returned, and leaves the
\* engine where that one left it: k = 0, ik = -1, xk = x0 and the
\* rotating index at its start.
C37_SameSequence ==
    [][(Constructed /\ args.cls = "Cyclic" /\ op = "__iter__" /\ yielded # << >>
            /\ Advance) =>
          /\ exc' = "None"
          /\ ret'.data = yielded[1].data
          /\ self'._k = 0
          /\ self'._ik = -1
          /\ self'._xk = self'._x0
          /\ self'._row_index = -1]_vars

(***************************************************************************)
(* C38: in every reachable state of an engine the number of selector calls *)
(* made so far equals max(k, 0): the selector is consulted exactly once    *)
(* per update step, after the stopping test has passed, and never on the   *)
(* initial yield of x0 nor on an advance that raises StopIteration.        *)
(***************************************************************************)
\* The number of selector calls among the methods d that a call invoked.
C38_Consulted(d) == Cardinality({e \in DOMAIN d : d[e] = "_select_row_index"})

C38_UpdateSteps(s) == IF s._k > 0 THEN s._k ELSE 0

\* An engine is constructed at k = -1, and every step makes as many
\* selector calls as it adds to max(k, 0), a selector call that raises
\* included; a call that consults the selector does so right after the
\* stopping test.
C38_OncePerStep ==
    [][Constructed =>
        /\ C38_Consulted(did') = C38_UpdateSteps(self') - C38_UpdateSteps(self)
        /\ C38_Consulted(did') <= 1
        /\ (Advance /\ (self._k = -1 \/ exc' = "StopIteration"))
              => C38_Consulted(did') = 0
        /\ C38_Consulted(did') = 1
              => SubSeq(did', 1, 2) = <<"_stopping_criterion", "_select_row_index">>]_vars

\* An engine that yielded x0, made two update steps and then raised
\* StopIteration: two selector calls in four advances, k = 2.
C38_Witness ==
    /\ Constructed /\ op = "__next__" /\ exc = "StopIteration"
    /\ self._k = 2 /\ Len(selected) = 2 /\ Len(yielded) = 3
    /\ C38_Consulted(did) = 0

(***************************************************************************)
(* C39: with the default quantile = 1.0 the Quantile selector never        *)
(* returns -1: for every xk and every drawn candidate the candidate is     *)
(* accepted, so a default Quantile engine performs a projection on every   *)
(* update step exactly like Random.                                        *)
(***************************************************************************)
\* Every update step of a Quantile(quantile = 1) engine returns the row
\* it drew, which is one of the rows Random's selector returns, and
\* projects onto it.
C39_DefaultAccepts ==
    [][(Constructed /\ args.cls = "Quantile" /\ args.quantile = Rat(1, 1)
            /\ Advance /\ draws' # << >>) =>
          /\ exc' = "None"
          /\ sel' # Some(-1)
          /\ sel' = Some(draws'[1])
          /\ sel'.val \in {o.ik : o \in Random_select_row_index(self, self._xk)}
          /\ self'._ik = sel'.val
          /\ did' = <<"_stopping_criterion", "_select_row_index",
                      "_update_iterate", "_callback">>]_vars

\* A default Quantile engine has accepted a candidate whose distance is
\* above the median of the distances, the largest of all.
C39_Witness ==
    /\ Constructed /\ args.cls = "Quantile" /\ args.quantile = Rat(1, 1)
    /\ op = "__next__" /\ exc = "None" /\ sel # None /\ sel # Some(-1)
    /\ LET dists == C19_AbsResiduals(xarg)
       IN  /\ RLt(np_quantile(dists, Rat(1, 2)), dists[sel.val])
           /\ \A i \in DOMAIN dists : RLe(dists[i], dists[sel.val])
    /\ self._ik = sel.val

(***************************************************************************)
(* C40: for every theta in [0, 1) RelaxedGreedy's eligible set is the set  *)
(* of rows whose normalized squared residual is at least the               *)
(* squared-row-norm-weighted mean of all normalized squared residuals: it  *)
(* does not depend on theta and is non-empty whenever the residual is      *)
(* non-zero, so the 'Index set empty' error can only occur when the        *)
(* selector is called with an all-zero residual.                           *)
(***************************************************************************)
\* (b_i - a_i . v)^2 of the normalized system of the engine s.
C40_ResidualSq(s, v) ==
    [i \in DOMAIN s._b |->
        LET r == RSub(s._b[i], Dot(s._A[i], v)) IN RMul(r, r)]

\* sum_j |a_j|^2 r_j^2 / sum_j |a_j|^2, with |a_j| the norm of the given row.
C40_WeightedMean(s, v) ==
    LET w == [j \in DOMAIN s._b |-> Int2Rat(s._row_norms[j] * s._row_norms[j])]
        r == C40_ResidualSq(s, v)
    IN  RDiv(RSum([j \in DOMAIN w |-> RMul(w[j], r[j])], 0, Size(w) - 1),
             RSum(w, 0, Size(w) - 1))

C40_AtLeastMean(s, v) ==
    {i \in DOMAIN s._b : RLe(C40_WeightedMean(s, v), C40_ResidualSq(s, v)[i])}

C40_ZeroResidual(s, v) == \A i \in DOMAIN s._b : C40_ResidualSq(s, v)[i] = RZero

C40_ThetaFree ==
    [][(Constructed /\ args.cls = "RelaxedGreedy" /\ RLt(args.theta, Int2Rat(1))
            /\ Advance /\ self._k >= 0 /\ exc' # "StopIteration") =>
        /\ ~C40_ZeroResidual(self, self._xk) =>
              /\ {i \in DOMAIN self._b : RelaxedGreedy_index_bool(self, self._xk)[i]}
                    = C40_AtLeastMean(self, self._xk)
              /\ C40_AtLeastMean(self, self._xk) # {}
              /\ exc' = "None"
              /\ sel'.val \in C40_AtLeastMean(self, self._xk)
        /\ exc' = "Exception" => C40_ZeroResidual(self, self._xk)]_vars

\* RelaxedGreedy(theta = 0) on eye22 with b = [1,2] from x0 = 0: the
\* squared residuals are 1 and 4, their mean is 5/2, and the selector
\* returned row 1, the only row at or above it.
C40_Witness ==
    /\ Constructed /\ args.cls = "RelaxedGreedy" /\ args.theta = Rat(0, 1)
    /\ op = "__next__" /\ exc = "None" /\ self._k = 1
    /\ C40_WeightedMean(self, xarg) = Rat(5, 2)
    /\ C40_AtLeastMean(self, xarg) = {1}
    /\ sel = Some(1)

=============================================================================
